---- MODULE Spec2Model ----
(***************************************************************************)
(* A model of the e-value library: the mom e-process (Mom.eValue), its     *)
(* confidence interval (Mom.CI), the noncentral t CDF (NoncentralT.CDF)    *)
(* and the Monte-Carlo sample size planner (GetNPlan).                     *)
(*                                                                         *)
(* float64 values are fixed-point integers: the integer v stands for the   *)
(* real v / Unit.  Divisions and square roots round toward minus infinity, *)
(* as float64 operations round to 53 bits.  The three non-finite float64   *)
(* values are the integers PosInf, NegInf and NaN, outside the finite      *)
(* range the model reaches; every operator that can meet them says what    *)
(* IEEE 754 arithmetic yields.                                             *)
(***************************************************************************)
EXTENDS Integers, Sequences, FiniteSets, TLC

\* One, in fixed point.
Unit == 10 * 100

PosInf == 2 ^ 30
NegInf == 0 - (2 ^ 30)
NaN == (2 ^ 30) + 1

IsNaN(v) == v = NaN
IsFinite(v) == v \notin {PosInf, NegInf, NaN}

Abs(v) == IF v < 0 THEN 0 - v ELSE v
MinOf(a, b) == IF a <= b THEN a ELSE b
MaxOf(a, b) == IF a >= b THEN a ELSE b

\* The fixed-point value of the integer n.
Fix(n) == n * Unit

\* a * b of two finite fixed-point values.  The larger factor is split so
\* that no intermediate product leaves TLC's 32-bit integers.
MulSplit(a, b) == (a \div Unit) * b + ((a % Unit) * b) \div Unit
Mul(a, b) == IF Abs(a) >= Abs(b) THEN MulSplit(a, b) ELSE MulSplit(b, a)

\* a / b of two finite fixed-point values, b # 0.
DivSplit(a, b) == (a \div b) * Unit + ((a % b) * Unit) \div b
Div(a, b) == IF b > 0 THEN DivSplit(a, b) ELSE DivSplit(0 - a, 0 - b)

\* The largest integer r with r * r <= n, by bisection on [lo, hi].
RECURSIVE IsqrtIn(_, _, _)
IsqrtIn(n, lo, hi) ==
    IF lo >= hi THEN lo
    ELSE LET mid == (lo + hi + 1) \div 2
         IN IF mid <= n \div mid THEN IsqrtIn(n, mid, hi)
            ELSE IsqrtIn(n, lo, mid - 1)
Isqrt(n) == IF n <= 0 THEN 0 ELSE IsqrtIn(n, 1, MinOf(n, 46340))

\* math.Sqrt of a fixed-point value: NaN for a negative argument.
Sqrt(v) ==
    IF v < 0 THEN NaN
    ELSE IF v <= (2 ^ 30) \div Unit THEN Isqrt(v * Unit)
    ELSE Isqrt(v \div 10) * 100

\* math.Ceil of a finite fixed-point value, as an integer.
CeilInt(v) == 0 - ((0 - v) \div Unit)

\* base ^ n for a fixed-point base and an integer n >= 0.
RECURSIVE PowInt(_, _)
PowInt(base, n) == IF n <= 0 THEN Unit ELSE Mul(PowInt(base, n - 1), base)


(***************************************************************************)
(* The mom e-process: src/evalue.go, Mom.                                  *)
(***************************************************************************)

\* NewMom: the tuning parameter G of the e-process for deltaMin.
NewMom(deltaMin) == Mul(deltaMin, deltaMin) \div 2

\* A value of 2 in place of the series, which is 1 at z = 0.
HypergeoTwo(a2, z) == 2 * Unit

\* mathext.Hypergeo(a, 3/2, 1/2, z) for a = a2 / 2 and 0 <= z < 1.  With
\* b = 3/2 and c = 1/2 the Gauss series sum (a)_k (2k+1) z^k / k! has the
\* closed form (1 + (2a - 1) z) * (1 - z)^(-(a + 1)).
Hypergeo(a2, z) ==
    IF IsNaN(z) THEN NaN
    ELSE LET r == Div(Unit, Unit - z)
             m == a2 + 2
             whole == PowInt(r, m \div 2)
             pow == IF m % 2 = 1 THEN Mul(whole, Sqrt(r)) ELSE whole
         IN Mul(Unit + (a2 - 1) * z, pow)

\* t*t / (nu + t*t) for a fixed-point t and an integer nu: NaN for a
\* non-finite t (Inf/Inf) and for 0/0.
TSquareRatio(t, nu) ==
    IF ~IsFinite(t) THEN NaN
    ELSE IF Abs(t) <= 40 * Unit
         THEN LET tt == Mul(t, t)
              IN IF Fix(nu) + tt = 0 THEN NaN ELSE Div(tt, Fix(nu) + tt)
         ELSE Div(Unit, Unit + Div(Div(Fix(nu), t), t))

\* Mom.eValue: the e-value of a t-statistic, for an integer nu and a
\* fixed-point nEff and G.
MomEValue(t, nu, nEff, g) ==
    LET u == Mul(nEff, g)
        e1 == Div(Unit, Mul(Unit + u, Sqrt(Unit + u)))
        ratio == TSquareRatio(t, nu)
        z == IF IsNaN(ratio) THEN NaN
             ELSE Div(Mul(Mul(ratio, nEff), g), Unit + u)
        e2 == Hypergeo(nu + 1, z)
    IN IF IsNaN(e2) THEN NaN ELSE Mul(e1, e2)


(***************************************************************************)
(* Bounds and input sets of the model.                                     *)
(***************************************************************************)

\* The most trials of one GetNPlan call.  The default of 1000 trials
\* (NewGetNPlanOptions) is scaled down to this number as well.
MaxSamples == 2
\* The roots nEff that the root-finder of getNPlanBatch may return are the
\* multiples of 1/2 up to MaxNEffHalves / 2.
MaxNEffHalves == 3
\* The most GetNPlan calls a caller makes.
MaxCalls == 2

Alphas == {Unit \div 20, Unit \div 4}
Betas == {Unit \div 5, Unit \div 2}
Deltas == {2 * Unit, 0 - Unit}
Ratios == {Unit \div 2, Unit, 2 * Unit}
NEffRoots == {k * (Unit \div 2) : k \in 1..MaxNEffHalves}
Archs == {"amd64", "arm64"}

\* int64 bounds.  TLC's integers have 32 bits: MaxInt64 stands for
\* 2^63 - 1 and MinInt64 for -2^63, beyond every count of the model.
MaxInt64 == (2 ^ 16) - 1
MinInt64 == 0 - (2 ^ 16)

\* notStopped: the stopping time of a trial no test has stopped.
notStopped == 0 - 1

(***************************************************************************)
(* State.                                                                  *)
(***************************************************************************)
VARIABLES
    arch,        \* the build target, which fixes float-to-int conversion
    pc,          \* where the current GetNPlan call stands
    calls,       \* the number of GetNPlan calls started
    args,        \* the arguments of the current call
    rsrc,        \* the state of the random source of the current call
    nPlan,       \* the NPlan under construction
    batch2,      \* nPlanBatch2
    n1Vector, n2Vector,
    sample1, sample2,
    interpolate1, interpolate2,
    trial,       \* the number of trials finished in this call
    i,           \* the checkpoint index of the running trial (0-based)
    eValues,     \* the e-value trace of the running trial
    stopT,       \* the stopping time of the running trial
    returned,    \* the NPlans returned so far, one per finished call
    ci,          \* a call of Mom.CI: its arguments, locals and result
    cdf,         \* a call of NoncentralT.CDF: its arguments, locals and result
    ev,          \* a call of f of Mom.CI, which calls Mom.eValue
    qt,          \* the calls of NoncentralT.Quantile made so far
    ob,          \* a call of f of getNPlanBatch
    br           \* a call of findBracketMono: its arguments, locals and result

planVars == <<arch, pc, calls, args, rsrc, nPlan, batch2, n1Vector, n2Vector,
              sample1, sample2, interpolate1, interpolate2, trial, i,
              eValues, stopT, returned>>

fnVars == <<ev, qt, ob, br>>


(***************************************************************************)
(* The random source.  rand.NewChaCha8(seed) is a deterministic generator; *)
(* it is modelled by a full-period linear congruential generator on 32     *)
(* states, and NormFloat64 by a draw among -1, 0, 0 and 1.                 *)
(***************************************************************************)

\* The seed of the default random source.
DefaultSeed == 1
Seeds == {DefaultSeed, 6, 12, 23}

\* The state of a source after one draw.
RandNext(s) == (5 * s + 3) % 32
\* rnd.NormFloat64(): the value drawn in state s (the state moves on).
NormFloat64(s) ==
    LET q == RandNext(s) \div 8
    IN IF q = 0 THEN 0 - Unit ELSE IF q = 3 THEN Unit ELSE 0

(***************************************************************************)
(* GetNPlan options.                                                       *)
(***************************************************************************)

\* NewGetNPlanOptions handing out one package-level random source, in the
\* state the last call left it in.
NewGetNPlanOptionsShared ==
    [ratio |-> Unit, numSamples |-> MaxSamples, rsrc |-> rsrc]

\* NewGetNPlanOptions: ratio 1, the default number of trials, and a random
\* source built anew from the fixed seed.
NewGetNPlanOptions ==
    [ratio |-> Unit, numSamples |-> MaxSamples, rsrc |-> DefaultSeed]

\* The variadic options argument: none, or one options value whose ratio,
\* number of trials and random source the caller has set.
OptionArgs ==
    {<<>>} \cup
    {<<[ratio |-> r, numSamples |-> n, rsrc |-> sd]>> :
        r \in Ratios, n \in 1..MaxSamples, sd \in Seeds}

\* The options GetNPlan works with: options[0] when given, else the default.
OptionsOf(options) ==
    IF Len(options) > 0 THEN options[1] ELSE NewGetNPlanOptions

(***************************************************************************)
(* getNPlanBatch.  The bracketed root-finder is an external primitive: its *)
(* outcome, an error or a root nEff, is an input of the model.             *)
(***************************************************************************)

BrentResults ==
    {[err |-> TRUE, root |-> 0]} \cup
    {[err |-> FALSE, root |-> r] : r \in NEffRoots}

\* getNPlanBatch signalling failure with the pair (0, 0).
GetNPlanBatchZero(brent, ratio) ==
    IF brent.err THEN <<0, 0>>
    ELSE <<CeilInt(Div(Mul(brent.root, Unit + ratio), ratio)),
           CeilInt(Mul(brent.root, Unit + ratio))>>

\* getNPlanBatch with the two sizes exchanged.
GetNPlanBatchSwapped(brent, ratio) ==
    IF brent.err THEN <<0 - 1, 0 - 1>>
    ELSE <<CeilInt(Mul(brent.root, Unit + ratio)),
           CeilInt(Div(Mul(brent.root, Unit + ratio), ratio))>>

\* The batch sample sizes <<n1, n2>> for the outcome of root.Brent.
GetNPlanBatch(brent, ratio) ==
    IF brent.err THEN <<0 - 1, 0 - 1>>
    ELSE <<CeilInt(Div(Mul(brent.root, Unit + ratio), ratio)),
           CeilInt(Mul(brent.root, Unit + ratio))>>

(***************************************************************************)
(* interpolator.                                                           *)
(***************************************************************************)

Zeros(n) == [k \in 1..n |-> 0]

\* newInterpolator(n, sampleLen): zeroed buffers.
NewInterpolator(n, sampleLen) ==
    [x |-> Zeros(n), x2 |-> Zeros(n),
     cum |-> Zeros(sampleLen), cum2 |-> Zeros(sampleLen)]

\* The cumulative sums b.cum[0..k-1] of the sample (k >= 1).
RECURSIVE CumSum(_, _)
CumSum(sample, k) ==
    IF k = 1 THEN <<sample[1]>>
    ELSE LET prev == CumSum(sample, k - 1)
         IN Append(prev, prev[k - 1] + sample[k])

\* The cumulative sums of squares b.cum2[0..k-1] of the sample (k >= 1).
RECURSIVE CumSquare(_, _)
CumSquare(sample, k) ==
    IF k = 1 THEN <<Mul(sample[1], sample[1])>>
    ELSE LET prev == CumSquare(sample, k - 1)
         IN Append(prev, prev[k - 1] + Mul(sample[k], sample[k]))

\* Whether interpolator.do indexes out of range: sample[0] of an empty
\* sample, or b.cum[n-1] for a count n beyond the buffer.
DoPanics(b, ns, sample) ==
    \/ Len(sample) = 0
    \/ Len(b.cum) = 0
    \/ Len(sample) < Len(b.cum)
    \/ \E k \in 1..Len(ns) : ns[k] < 1 \/ ns[k] > Len(b.cum)

\* interpolator.do adding the sample onto the sums left in the buffers.
InterpolatorDoStale(b, ns, sample) ==
    LET cum == [k \in 1..Len(b.cum) |->
                  b.cum[k] + CumSum(sample, Len(b.cum))[k]]
        cum2 == [k \in 1..Len(b.cum2) |->
                   b.cum2[k] + CumSquare(sample, Len(b.cum))[k]]
    IN [x |-> [k \in 1..Len(b.x) |->
                 IF k <= Len(ns) THEN cum[ns[k]] \div ns[k] ELSE b.x[k]],
        x2 |-> [k \in 1..Len(b.x2) |->
                 IF k <= Len(ns) THEN cum2[ns[k]] ELSE b.x2[k]],
        cum |-> cum, cum2 |-> cum2]

\* interpolator.do without the division by the count.
InterpolatorDoSums(b, ns, sample) ==
    LET cum == CumSum(sample, Len(b.cum))
        cum2 == CumSquare(sample, Len(b.cum))
    IN [x |-> [k \in 1..Len(b.x) |->
                 IF k <= Len(ns) THEN cum[ns[k]] ELSE b.x[k]],
        x2 |-> [k \in 1..Len(b.x2) |->
                 IF k <= Len(ns) THEN cum2[ns[k]] ELSE b.x2[k]],
        cum |-> cum, cum2 |-> cum2]

\* interpolator.do: the buffers after the call; b.x and b.x2 are returned.
InterpolatorDo(b, ns, sample) ==
    LET cum == CumSum(sample, Len(b.cum))
        cum2 == CumSquare(sample, Len(b.cum))
    IN [x |-> [k \in 1..Len(b.x) |->
                 IF k <= Len(ns) THEN cum[ns[k]] \div ns[k] ELSE b.x[k]],
        x2 |-> [k \in 1..Len(b.x2) |->
                 IF k <= Len(ns) THEN cum2[ns[k]] ELSE b.x2[k]],
        cum |-> cum, cum2 |-> cum2]


(***************************************************************************)
(* float64 arithmetic that can meet the non-finite values.                 *)
(***************************************************************************)

\* Whether the product of two finite values leaves the float64 range.  The
\* range of the model ends at 2^30 fixed-point units.
MulOverflows(a, b) ==
    LET big == MaxOf(Abs(a), Abs(b))
        small == MinOf(Abs(a), Abs(b))
    IN big \div Unit > 0 /\ small >= (2 ^ 30) \div (big \div Unit)

\* The infinity of the sign of a product or quotient of a and b.
InfOfSigns(a, b) == IF (a > 0) = (b > 0) THEN PosInf ELSE NegInf

\* a * b.
FMul(a, b) ==
    IF IsNaN(a) \/ IsNaN(b) THEN NaN
    ELSE IF IsFinite(a) /\ IsFinite(b)
         THEN IF MulOverflows(a, b) THEN InfOfSigns(a, b) ELSE Mul(a, b)
    ELSE IF a = 0 \/ b = 0 THEN NaN
    ELSE InfOfSigns(a, b)

\* a + b.
FAdd(a, b) ==
    IF IsNaN(a) \/ IsNaN(b) THEN NaN
    ELSE IF IsFinite(a) /\ IsFinite(b)
         THEN IF a + b >= PosInf THEN PosInf
              ELSE IF a + b <= NegInf THEN NegInf
              ELSE a + b
    ELSE IF IsFinite(a) THEN b
    ELSE IF IsFinite(b) \/ a = b THEN a
    ELSE NaN

\* -a.
FNeg(a) ==
    IF IsNaN(a) THEN NaN
    ELSE IF a = PosInf THEN NegInf
    ELSE IF a = NegInf THEN PosInf
    ELSE 0 - a

\* a - b.
FSub(a, b) == FAdd(a, FNeg(b))

\* a / b.
FDiv(a, b) ==
    IF IsNaN(a) \/ IsNaN(b) THEN NaN
    ELSE IF ~IsFinite(b) THEN (IF IsFinite(a) THEN 0 ELSE NaN)
    ELSE IF ~IsFinite(a) THEN (IF b = 0 THEN a ELSE InfOfSigns(a, b))
    ELSE IF b = 0 THEN (IF a = 0 THEN NaN ELSE IF a > 0 THEN PosInf ELSE NegInf)
    ELSE IF Abs(a) \div Abs(b) >= (2 ^ 30) \div Unit THEN InfOfSigns(a, b)
    ELSE Div(a, b)

\* math.Sqrt.
FSqrt(v) ==
    IF IsNaN(v) \/ v = NegInf THEN NaN
    ELSE IF v = PosInf THEN PosInf
    ELSE Sqrt(v)

\* a > b: false when either side is NaN.
FGt(a, b) == ~IsNaN(a) /\ ~IsNaN(b) /\ a > b

\* The built-in min of two float64 values.
FMin(a, b) == IF IsNaN(a) \/ IsNaN(b) THEN NaN ELSE MinOf(a, b)

\* math.Ceil.
Ceil(v) == IF IsFinite(v) THEN Fix(CeilInt(v)) ELSE v

\* float64(n) for an int n: 2^63 - 1 rounds to 2^63.
FloatOfInt(n) == IF n = MaxInt64 THEN Fix(MaxInt64 + 1) ELSE Fix(n)

\* int(v) for an integral float64 v.  A value that int64 cannot hold (NaN,
\* an infinity, 2^63 or more) converts to an implementation-specific value:
\* amd64 yields the smallest int64, arm64 saturates and turns NaN into 0.
IntOfFloat(v, target) ==
    IF IsFinite(v) /\ v >= Fix(MinInt64) /\ v <= Fix(MaxInt64) THEN v \div Unit
    ELSE IF target = "amd64" THEN MinInt64
    ELSE IF IsNaN(v) THEN 0
    ELSE IF v > 0 THEN MaxInt64 ELSE MinInt64

(***************************************************************************)
(* One checkpoint of a simulated experiment: src/evalue.go, GetNPlan.      *)
(***************************************************************************)

\* The e-value with the formula evaluated from nu = 0 on.
CheckpointEValueFromZero(n1, n2, x1, x2, x1Sq, x2Sq, g) ==
    LET nu == n1 + n2 - 2
        nEff == Div(Fix(n1 * n2), Fix(n1 + n2))
    IN IF nu >= 0
       THEN LET ss == x1Sq - Mul(n1 * x1, x1) + x2Sq - Mul(n2 * x2, x2)
                sp == FSqrt(FMul(FDiv(Unit, Fix(nu)), ss))
                t == FDiv(FMul(Sqrt(nEff), x1 - x2), sp)
            IN MomEValue(t, nu, nEff, g)
       ELSE Unit

\* The e-value at a checkpoint with group sizes n1 and n2, group means x1
\* and x2 and group sums of squares x1Sq and x2Sq.
CheckpointEValue(n1, n2, x1, x2, x1Sq, x2Sq, g) ==
    LET nu == n1 + n2 - 2
        nEff == Div(Fix(n1 * n2), Fix(n1 + n2))
    IN IF nu > 0
       THEN LET ss == x1Sq - Mul(n1 * x1, x1) + x2Sq - Mul(n2 * x2, x2)
                sp == Sqrt(Mul(Div(Unit, Fix(nu)), ss))
                t == FDiv(FMul(Sqrt(nEff), x1 - x2), sp)
            IN MomEValue(t, nu, nEff, g)
       ELSE Unit

\* A test that never rejects.
RejectsNever(eVal, alpha) == FALSE

\* Rejects with the threshold alpha in place of 1/alpha.
RejectsAboveAlpha(eVal, alpha) == FGt(eVal, alpha)

\* The test with optional stopping: eVal > 1/alpha.
Rejects(eVal, alpha) == FGt(eVal, Div(Unit, alpha))

(***************************************************************************)
(* The aggregation of the stopping times: src/evalue.go, GetNPlan.         *)
(***************************************************************************)

\* StopTFloat without the replacement of notStopped.
StopTFloatRaw(stops) == [k \in 1..Len(stops) |-> Fix(stops[k])]

\* The float64 copy of the stopping times: notStopped becomes +Inf.
StopTFloat(stops) ==
    [k \in 1..Len(stops) |->
        IF stops[k] = notStopped THEN PosInf ELSE Fix(stops[k])]

\* slices.Sort: ascending, by insertion.
RECURSIVE Insert(_, _)
Insert(sorted, v) ==
    IF sorted = <<>> THEN <<v>>
    ELSE IF v <= Head(sorted) THEN <<v>> \o sorted
    ELSE <<Head(sorted)>> \o Insert(Tail(sorted), v)
RECURSIVE SlicesSort(_)
SlicesSort(x) ==
    IF x = <<>> THEN <<>> ELSE Insert(SlicesSort(Tail(x)), Head(x))

\* stat.Quantile(p, stat.LinInterp, x, nil) from index k on: the first
\* index whose count k reaches p * len(x) decides.
RECURSIVE LinInterpFrom(_, _, _)
LinInterpFrom(p, x, k) ==
    LET fidx == p * Len(x)
    IN IF Fix(k) >= fidx
       THEN IF k = 1 THEN x[1]
            ELSE LET t == Fix(k) - fidx
                 IN FAdd(FMul(t, x[k - 1]), FMul(Unit - t, x[k]))
       ELSE LinInterpFrom(p, x, k + 1)
Quantile(p, x) == LinInterpFrom(p, x, 1)

\* The sum of a sequence of finite values.
RECURSIVE Sum(_)
Sum(x) == IF x = <<>> THEN 0 ELSE Head(x) + Sum(Tail(x))

\* stat.Mean(x, nil).
Mean(x) == Sum(x) \div Len(x)

\* nPlan.N for the raw stopping times.
PlanN(stops, beta, target) ==
    IntOfFloat(Ceil(Quantile(Unit - beta, SlicesSort(StopTFloat(stops)))),
               target)

\* nPlan.Mean for the raw stopping times and nPlan.N.
PlanMean(stops, n, target) ==
    LET sorted == SlicesSort(StopTFloat(stops))
        clipped == [k \in 1..Len(sorted) |-> FMin(FloatOfInt(n), sorted[k])]
    IN IntOfFloat(Ceil(Mean(clipped)), target)


(***************************************************************************)
(* GetNPlan, step by step.                                                 *)
(***************************************************************************)

NoArgs == [alpha |-> 0, beta |-> 0, deltaMin |-> 0, options |-> <<>>,
           brent |-> [err |-> TRUE, root |-> 0]]
EmptyPlan == [N |-> 0, Mean |-> 0, Batch |-> 0, EValue |-> <<>>, StopT |-> <<>>]
NoBuffers == NewInterpolator(0, 0)

PlanInit ==
    /\ arch \in Archs
    /\ pc = "idle"
    /\ calls = 0
    /\ args = NoArgs
    /\ rsrc = DefaultSeed
    /\ nPlan = EmptyPlan
    /\ batch2 = 0
    /\ n1Vector = <<>>
    /\ n2Vector = <<>>
    /\ sample1 = <<>>
    /\ sample2 = <<>>
    /\ interpolate1 = NoBuffers
    /\ interpolate2 = NoBuffers
    /\ trial = 0
    /\ i = 0
    /\ eValues = <<>>
    /\ stopT = notStopped
    /\ returned = <<>>

\* Lines 145-154: the options, the e-process and the batch sample sizes.
\* The random source is the one of the options: a fresh one from the fixed
\* seed without options, the caller's own with options.
Enter(a, src) ==
    LET opt == OptionsOf(a.options)
        nb == GetNPlanBatch(a.brent, opt.ratio)
    IN /\ args' = a
       /\ rsrc' = src
       /\ calls' = calls + 1
       /\ nPlan' = [EmptyPlan EXCEPT !.Batch = nb[1]]
       /\ batch2' = nb[2]
       /\ n1Vector' = <<>>
       /\ n2Vector' = <<>>
       /\ sample1' = <<>>
       /\ sample2' = <<>>
       /\ interpolate1' = NoBuffers
       /\ interpolate2' = NoBuffers
       /\ trial' = 0
       /\ i' = 0
       /\ eValues' = <<>>
       /\ stopT' = notStopped
       /\ pc' = "checkpoints"
       /\ UNCHANGED <<arch, returned, ci, cdf, fnVars>>

\* The first call of GetNPlan, with any valid arguments.
Call ==
    /\ pc = "idle"
    /\ \E alpha \in Alphas, beta \in Betas, deltaMin \in Deltas,
          options \in OptionArgs, brent \in BrentResults :
          Enter([alpha |-> alpha, beta |-> beta, deltaMin |-> deltaMin,
                 options |-> options, brent |-> brent],
                OptionsOf(options).rsrc)

\* The caller repeats the call with the same arguments.  An options value
\* passed again holds the same random source, which has moved on.
CallAgain ==
    /\ pc = "done"
    /\ calls < MaxCalls
    /\ Enter(args, IF Len(args.options) > 0 THEN rsrc
                   ELSE OptionsOf(args.options).rsrc)

\* The group-B count rounded down.
CheckpointN2Floor(ratio, k) == Mul(ratio, Fix(k)) \div Unit

\* Line 160: int(math.Ceil(opt.ratio * float64(i))).
CheckpointN2(ratio, k) == CeilInt(Mul(ratio, Fix(k)))

\* Lines 156-161: the checkpoint vectors.
BuildCheckpoints ==
    /\ pc = "checkpoints"
    /\ LET ratio == OptionsOf(args.options).ratio
           n == IF nPlan.Batch >= 1 THEN nPlan.Batch ELSE 0
       IN /\ n1Vector' = [k \in 1..n |-> k]
          /\ n2Vector' = [k \in 1..n |-> CheckpointN2(ratio, k)]
    /\ pc' = "allocate"
    /\ UNCHANGED <<arch, calls, args, rsrc, nPlan, batch2, sample1, sample2,
                   interpolate1, interpolate2, trial, i, eValues, stopT,
                   returned>>
    /\ UNCHANGED <<ci, cdf, fnVars>>

\* Lines 164-169: the buffers.  make panics on a negative length.
Allocate ==
    /\ pc = "allocate"
    /\ LET sampleLen == MaxOf(nPlan.Batch, batch2)
       IN IF sampleLen < 0
          THEN /\ pc' = "panic"
               /\ UNCHANGED <<sample1, sample2, interpolate1, interpolate2>>
          ELSE /\ sample1' = Zeros(sampleLen)
               /\ sample2' = Zeros(sampleLen)
               /\ interpolate1' = NewInterpolator(Len(n1Vector), sampleLen)
               /\ interpolate2' = NewInterpolator(Len(n2Vector), sampleLen)
               /\ pc' = IF OptionsOf(args.options).numSamples > 0
                        THEN "generate" ELSE "aggregate"
    /\ UNCHANGED <<arch, calls, args, rsrc, nPlan, batch2, n1Vector, n2Vector,
                   trial, i, eValues, stopT, returned>>
    /\ UNCHANGED <<ci, cdf, fnVars>>

\* sample1[0..k-1], sample2[0..k-1] and the source state after drawing them
\* in the order of the loop: sample1[i], then sample2[i].
RECURSIVE Draw(_, _, _)
Draw(src, deltaMin, k) ==
    IF k = 0 THEN [s1 |-> <<>>, s2 |-> <<>>, src |-> src]
    ELSE LET prev == Draw(src, deltaMin, k - 1)
             srcA == RandNext(prev.src)
         IN [s1 |-> Append(prev.s1, deltaMin \div 2 + NormFloat64(prev.src)),
             s2 |-> Append(prev.s2, (0 - deltaMin) \div 2 + NormFloat64(srcA)),
             src |-> RandNext(srcA)]

\* Lines 170-174: the simulation data of one trial.
Generate ==
    /\ pc = "generate"
    /\ LET d == Draw(rsrc, args.deltaMin, Len(sample1))
       IN /\ sample1' = d.s1
          /\ sample2' = d.s2
          /\ rsrc' = d.src
    /\ pc' = "interpolate"
    /\ UNCHANGED <<arch, calls, args, nPlan, batch2, n1Vector, n2Vector,
                   interpolate1, interpolate2, trial, i, eValues, stopT,
                   returned>>
    /\ UNCHANGED <<ci, cdf, fnVars>>

\* Lines 177-182: the statistics at every checkpoint, read off the
\* cumulative sums.  An index out of range panics.
Interpolate ==
    /\ pc = "interpolate"
    /\ IF DoPanics(interpolate1, n1Vector, sample1)
       THEN /\ pc' = "panic"
            /\ UNCHANGED <<interpolate1, interpolate2>>
       ELSE /\ interpolate1' = InterpolatorDo(interpolate1, n1Vector, sample1)
            /\ IF DoPanics(interpolate2, n2Vector, sample2)
               THEN /\ pc' = "panic"
                    /\ UNCHANGED interpolate2
               ELSE /\ interpolate2' =
                          InterpolatorDo(interpolate2, n2Vector, sample2)
                    /\ pc' = IF Len(n1Vector) > 0 THEN "checkpoint"
                             ELSE "endTrial"
    /\ i' = 0
    /\ eValues' = <<>>
    /\ stopT' = notStopped
    /\ UNCHANGED <<arch, calls, args, rsrc, nPlan, batch2, n1Vector, n2Vector,
                   sample1, sample2, trial, returned>>
    /\ UNCHANGED <<ci, cdf, fnVars>>

\* Lines 183-203: checkpoint i of the running trial.
Checkpoint ==
    /\ pc = "checkpoint"
    /\ LET k == i + 1
           eVal == CheckpointEValue(n1Vector[k], n2Vector[k],
                                    interpolate1.x[k], interpolate2.x[k],
                                    interpolate1.x2[k], interpolate2.x2[k],
                                    NewMom(args.deltaMin))
       IN /\ eValues' = Append(eValues, eVal)
          /\ IF Rejects(eVal, args.alpha)
             THEN /\ stopT' = n1Vector[k]
                  /\ pc' = "endTrial"
                  /\ i' = i
             ELSE /\ stopT' = stopT
                  /\ i' = i + 1
                  /\ pc' = IF i + 1 < Len(n1Vector) THEN "checkpoint"
                           ELSE "endTrial"
    /\ UNCHANGED <<arch, calls, args, rsrc, nPlan, batch2, n1Vector, n2Vector,
                   sample1, sample2, interpolate1, interpolate2, trial,
                   returned>>
    /\ UNCHANGED <<ci, cdf, fnVars>>

\* Lines 205-206: the trial's trace and stopping time join the plan.
EndTrial ==
    /\ pc = "endTrial"
    /\ nPlan' = [nPlan EXCEPT !.EValue = Append(@, eValues),
                              !.StopT = Append(@, stopT)]
    /\ trial' = trial + 1
    /\ pc' = IF trial + 1 < OptionsOf(args.options).numSamples
             THEN "generate" ELSE "aggregate"
    /\ UNCHANGED <<arch, calls, args, rsrc, batch2, n1Vector, n2Vector,
                   sample1, sample2, interpolate1, interpolate2, i, eValues,
                   stopT, returned>>
    /\ UNCHANGED <<ci, cdf, fnVars>>

\* Lines 209-227: N and Mean; the plan is returned.
Aggregate ==
    /\ pc = "aggregate"
    /\ LET n == PlanN(nPlan.StopT, args.beta, arch)
           result == [nPlan EXCEPT !.N = n,
                                   !.Mean = PlanMean(nPlan.StopT, n, arch)]
       IN /\ nPlan' = result
          /\ returned' = Append(returned, result)
    /\ pc' = "done"
    /\ UNCHANGED <<arch, calls, args, rsrc, batch2, n1Vector, n2Vector,
                   sample1, sample2, interpolate1, interpolate2, trial, i,
                   eValues, stopT>>
    /\ UNCHANGED <<ci, cdf, fnVars>>

PlanNext ==
    \/ Call
    \/ CallAgain
    \/ BuildCheckpoints
    \/ Allocate
    \/ Generate
    \/ Interpolate
    \/ Checkpoint
    \/ EndTrial
    \/ Aggregate


(***************************************************************************)
(* The two sample t-statistic: src/evalue.go, TStat.                       *)
(***************************************************************************)

\* The sum of a sequence of float64 values.
RECURSIVE FSum(_)
FSum(x) == IF x = <<>> THEN 0 ELSE FAdd(Head(x), FSum(Tail(x)))

\* stat.Mean(x, nil) of values that may be large.
StatMean(x) == FDiv(FSum(x), Fix(Len(x)))

\* stat.Variance(x, nil): the unbiased sample variance, from the squared
\* deviations and their compensated sum.  One value gives 0/0.
StatVariance(x) ==
    LET mean == StatMean(x)
        d == [k \in 1..Len(x) |-> FSub(x[k], mean)]
        ss == FSum([k \in 1..Len(x) |-> FMul(d[k], d[k])])
        comp == FSum(d)
    IN FDiv(FSub(ss, FDiv(FMul(comp, comp), Fix(Len(x)))), Fix(Len(x) - 1))

\* TStat(x1, x2, phi0).
TStat(x1, x2, phi0) ==
    LET n1 == Len(x1)
        n2 == Len(x2)
        nu == n1 + n2 - 2
        nEff == Div(Fix(n1 * n2), Fix(n1 + n2))
        mean1 == StatMean(x1)
        mean2 == StatMean(x2)
        sp == FSqrt(FMul(FDiv(Unit, Fix(nu)),
                         FAdd(FMul(Fix(n1 - 1), StatVariance(x1)),
                              FMul(Fix(n2 - 1), StatVariance(x2)))))
        t == FDiv(FMul(Sqrt(nEff), FSub(FSub(mean1, mean2), phi0)), sp)
    IN [Nu |-> nu, NEff |-> nEff, Mean1 |-> mean1, Mean2 |-> mean2,
        Sp |-> sp, T |-> t]


(***************************************************************************)
(* The confidence interval: src/evalue.go, Mom.CI.                         *)
(***************************************************************************)

\* The longest sample of a Mom.CI call.
MaxCILen == 3
\* A sample value whose square is beyond the float64 range.
Huge == 4000 * Unit
CIValues == {0, Unit, Huge}
CISamples == UNION {[1..n -> CIValues] : n \in 2..MaxCILen}
\* The second samples: all observations equal.
CIControls == {[k \in 1..n |-> 0] : n \in 2..MaxCILen}
CIAlphas == {Unit \div 20, Unit \div 2}

\* f of Mom.CI: the e-value of t minus 1/alpha.
CIObjective(t, nu, nEff, g, alpha) ==
    FSub(MomEValue(t, nu, nEff, g), Div(Unit, alpha))

\* The first and the bound of the right ends b of the search intervals.
firstB == Fix(12)
maxB == firstB * 2^15

\* The right end of the interval in place of a root.
RootAtEnd(lo, hi, nu, nEff, g, alpha) == hi

\* A root of f in [lo, hi] for f(lo) < 0 <= f(hi): the point next to the
\* sign change that interval halving ends at.
RECURSIVE RootBetween(_, _, _, _, _, _)
RootBetween(lo, hi, nu, nEff, g, alpha) ==
    IF hi - lo <= 1 THEN hi
    ELSE LET mid == (lo + hi) \div 2
         IN IF CIObjective(mid, nu, nEff, g, alpha) < 0
            THEN RootBetween(mid, hi, nu, nEff, g, alpha)
            ELSE RootBetween(lo, mid, nu, nEff, g, alpha)

\* root.Brent(f, 0, b, tol): an error when f(0) and f(b) do not straddle 0;
\* otherwise a root in [0, b], or an error when the iterations run out
\* before the machine-epsilon tolerance is met.
Brent(b, nu, nEff, g, alpha) ==
    LET fa == CIObjective(0, nu, nEff, g, alpha)
        fb == CIObjective(b, nu, nEff, g, alpha)
        failed == [err |-> TRUE, root |-> 0]
    IN IF FGt(0, fa) /\ FGt(fb, 0)
       THEN {failed,
             [err |-> FALSE, root |-> RootBetween(0, b, nu, nEff, g, alpha)]}
       ELSE {failed}

\* The width from the right end b of the interval in place of the root.
CIWidthOfB(t, tAlpha, b) == FMul(FDiv(t.Sp, Sqrt(t.NEff)), b)

\* Line 87: width.
CIWidth(t, tAlpha, b) == FMul(FDiv(t.Sp, Sqrt(t.NEff)), tAlpha)

\* The interval that is returned although a root was found.
CIIntervalUnbounded(mean, width) == <<NegInf, PosInf>>

\* Lines 88-89: the interval around the difference of the means.
CIInterval(mean, width) == <<FSub(mean, width), FAdd(mean, width)>>

NoTStat == [Nu |-> 0, NEff |-> 0, Mean1 |-> 0, Mean2 |-> 0, Sp |-> 0, T |-> 0]
CIIdle == [pc |-> "idle", x |-> <<>>, y |-> <<>>, alpha |-> 0, g |-> 0,
           t |-> NoTStat, b |-> 0, tAlpha |-> 0, err |-> FALSE, invocations |-> 0,
           failures |-> 0, result |-> <<0, 0>>]

\* Mom.CI is called on an e-process and two samples.
CICall ==
    /\ ci.pc = "idle"
    /\ \E x \in CISamples, y \in CIControls, alpha \in CIAlphas,
          deltaMin \in Deltas :
          ci' = [CIIdle EXCEPT !.pc = "loop", !.x = x, !.y = y,
                               !.alpha = alpha, !.g = NewMom(deltaMin),
                               !.t = TStat(x, y, 0), !.b = firstB]
    /\ UNCHANGED <<planVars, cdf, fnVars>>

\* Lines 77-82: one turn of the loop, which doubles b after a failure and
\* breaks after a success.
\* A right end that stays where it is.
NextBSame(b) == b

\* Line 77: b *= 2.
NextB(b) == 2 * b

CIBrent ==
    /\ ci.pc = "loop"
    /\ ci.b < maxB
    /\ \E r \in Brent(ci.b, ci.t.Nu, ci.t.NEff, ci.g, ci.alpha) :
          ci' = [ci EXCEPT !.tAlpha = r.root, !.err = r.err,
                              !.invocations = @ + 1,
                              !.failures = IF r.err THEN @ + 1 ELSE @,
                              !.b = IF r.err THEN NextB(@) ELSE @,
                              !.pc = IF r.err THEN "loop" ELSE "return"]
    /\ UNCHANGED <<planVars, cdf, fnVars>>

\* Lines 83-89: the unbounded interval after an error, else the interval
\* of the half-width that the root gives.
CIReturn ==
    /\ \/ ci.pc = "return"
       \/ ci.pc = "loop" /\ ci.b >= maxB
    /\ ci' = [ci EXCEPT
                 !.pc = "done",
                 !.result =
                     IF ci.err THEN <<NegInf, PosInf>>
                     ELSE CIInterval(FSub(ci.t.Mean1, ci.t.Mean2),
                                     CIWidth(ci.t, ci.tAlpha, ci.b))]
    /\ UNCHANGED <<planVars, cdf, fnVars>>

CINext ==
    \/ CICall
    \/ CIBrent
    \/ CIReturn


(***************************************************************************)
(* The noncentral t distribution: src/distuv/noncentralt.go.               *)
(***************************************************************************)

\* math.Exp on the fixed-point grid for v >= 0, by halving the argument
\* down to the range of a short Taylor sum.  e^13 is the last power the
\* grid holds.
RECURSIVE ExpPos(_)
ExpPos(v) ==
    IF v > 13 * Unit THEN PosInf
    ELSE IF v <= Unit \div 2
         THEN LET v2 == Mul(v, v)
                  v3 == Mul(v2, v)
                  v4 == Mul(v3, v)
              IN Unit + v + v2 \div 2 + v3 \div 6 + v4 \div 24
    ELSE Mul(ExpPos(v \div 2), ExpPos(v - v \div 2))

\* math.Exp: e^v underflows to 0 for a large negative v.
Exp(v) ==
    IF IsNaN(v) THEN NaN
    ELSE IF v = PosInf THEN PosInf
    ELSE IF v = NegInf THEN 0
    ELSE IF v >= 0 THEN ExpPos(v)
    ELSE FDiv(Unit, ExpPos(0 - v))

\* math.Expm1.
Expm1(v) == FSub(Exp(v), Unit)

\* The standard normal distribution function, which pnorm takes from
\* math.Erfc: 1 / (1 + exp(-(1.5976 z + 0.07056 z^3))) agrees with it to
\* the precision of the grid.
Phi(z) ==
    IF IsNaN(z) THEN NaN
    ELSE IF z = PosInf \/ (IsFinite(z) /\ z > 6 * Unit) THEN Unit
    ELSE IF z = NegInf \/ (IsFinite(z) /\ z < 0 - 6 * Unit) THEN 0
    ELSE LET z3 == Mul(Mul(z, z), z)
             u == (15976 * z) \div 10000 + (7056 * (z3 \div 100)) \div 1000
         IN FDiv(Unit, FAdd(Unit, Exp(0 - u)))

\* pnorm(x, mu, sigma, lowerTail).
pnorm(x, mu, sigma, lowerTail) ==
    LET p == Phi(FDiv(FSub(x, mu), sigma))
    IN IF lowerTail THEN p ELSE FSub(Unit, p)

\* 1 / B(1/2, m) for an integer m >= 1: exp(-albeta) for the albeta of
\* line 59 and b = m.  It is 1/2 for m = 1 and grows by the factor
\* (2m - 1) / (2m - 2) from m - 1 to m.
RECURSIVE InvBetaHalf(_)
InvBetaHalf(m) ==
    IF m <= 1 THEN Unit \div 2
    ELSE (InvBetaHalf(m - 1) * (2 * m - 1)) \div (2 * m - 2)

\* pbeta(x, 1/2, m) for an integer m >= 1: the regularized incomplete beta
\* function sqrt(x) * sum over k < m of (1/2)_k / k! * (1 - x)^k.
RECURSIVE PbetaTerm(_, _)
PbetaTerm(x, k) ==
    IF k <= 0 THEN Unit
    ELSE (Mul(PbetaTerm(x, k - 1), Unit - x) * (2 * k - 1)) \div (2 * k)
RECURSIVE PbetaSum(_, _)
PbetaSum(x, k) ==
    IF k <= 0 THEN PbetaTerm(x, 0) ELSE PbetaTerm(x, k) + PbetaSum(x, k - 1)
pbeta(x, m) == Mul(Sqrt(x), PbetaSum(x, m - 1))

\* The iteration limit and sqrt(2/pi) on the grid.
itrmax == 1000
sqrt2dPi == 798

\* The degrees of freedom, noncentralities and arguments of the calls.
\* The positive degrees of freedom are even, which makes b = df / 2 an
\* integer.
CDFNus == {0 - Unit, 0, 2 * Unit, 4 * Unit}
CDFNcps == {0 - Unit, 0, Unit, 4 * Unit}
CDFTs == {0 - Unit, 0, Unit \div 2, 2 * Unit, NaN}

CDFIdle == [pc |-> "idle", Nu |-> 0, Ncp |-> 0, t |-> 0, negdel |-> FALSE,
            tt |-> 0, del |-> 0, x |-> 0, rxb |-> 0, lambda |-> 0,
            p |-> 0, q |-> 0, s |-> 0, a |-> 0, b |-> 0, xodd |-> 0,
            godd |-> 0, xeven |-> 0, geven |-> 0, tnc |-> 0, it |-> 0,
            series |-> FALSE, sum |-> 0, fallback |-> FALSE,
            exhausted |-> FALSE, checks |-> <<>>, exit |-> "none",
            first |-> [set |-> FALSE, Ncp |-> 0, t |-> 0, fallback |-> FALSE,
                       result |-> 0],
            result |-> 0]

\* CDF(t) is called on a distribution {Nu, Ncp}.
CDFCall ==
    /\ cdf.pc = "idle"
    /\ \E nu \in CDFNus, ncp \in CDFNcps, t \in CDFTs :
          cdf' = [CDFIdle EXCEPT !.pc = "guard", !.Nu = nu, !.Ncp = ncp,
                                 !.t = t]
    /\ UNCHANGED <<planVars, ci, fnVars>>

\* The check that lets df = 0 pass.
CDFGuardNegative(df) == ~IsNaN(df) /\ df < 0

\* Lines 26-28: the degrees of freedom must be positive.
CDFGuardFails(df) == ~(IsNaN(df) \/ df > 0)

\* Lines 26-33: NaN for df <= 0; else the reflection for a negative t.
CDFGuard ==
    /\ cdf.pc = "guard"
    /\ cdf' = IF CDFGuardFails(cdf.Nu)
              THEN [cdf EXCEPT !.pc = "done", !.result = NaN]
              ELSE IF FGt(cdf.t, 0) \/ cdf.t = 0
              THEN [cdf EXCEPT !.pc = "seed", !.negdel = FALSE,
                               !.tt = cdf.t, !.del = cdf.Ncp]
              ELSE [cdf EXCEPT !.pc = "seed", !.negdel = TRUE,
                               !.tt = FNeg(cdf.t), !.del = FNeg(cdf.Ncp)]
    /\ UNCHANGED <<planVars, ci, fnVars>>

\* A test that every p meets.
UnderflowsAlways(p) == TRUE

\* Lines 43-45: p has underflowed to 0.
Underflows(p) == p = 0

\* Lines 37-65 and 92-94: the seeds of the twin series.  For t = 0 there
\* is no series and control falls into the code below the loop, as it does
\* when p underflows to 0.
CDFSeed ==
    /\ cdf.pc = "seed"
    /\ LET df == cdf.Nu
           x0 == FMul(cdf.t, cdf.t)
           rxb0 == FDiv(df, FAdd(x0, df))
           x == FDiv(x0, FAdd(x0, df))
           lambda == Mul(cdf.del, cdf.del)
           p == Exp(0 - lambda \div 2) \div 2
           q == Mul(Mul(sqrt2dPi, p), cdf.del)
           s0 == Unit \div 2 - p
           s == IF s0 <= 0 THEN (0 - Expm1(0 - lambda \div 2)) \div 2 ELSE s0
           b == df \div 2
           rxb == PowInt(rxb0, b \div Unit)
           xodd == pbeta(x, b \div Unit)
           godd == 2 * Mul(Mul(rxb, Sqrt(x)), InvBetaHalf(b \div Unit))
           tnc0 == Mul(b, x)
       IN cdf' =
             IF FGt(x, 0)
             THEN IF Underflows(p)
                  THEN [cdf EXCEPT !.pc = "overflow", !.x = x, !.rxb = rxb0,
                                   !.lambda = lambda, !.p = p]
                  ELSE [cdf EXCEPT !.pc = "series", !.series = TRUE,
                                   !.x = x, !.rxb = rxb, !.lambda = lambda,
                                   !.p = p, !.q = q, !.s = s,
                                   !.a = Unit \div 2, !.b = b,
                                   !.xodd = xodd, !.godd = godd,
                                   !.xeven = Unit - rxb,
                                   !.geven = Mul(tnc0, rxb),
                                   !.tnc = Mul(p, xodd) + Mul(q, Unit - rxb),
                                   !.it = 1]
             ELSE [cdf EXCEPT !.pc = "overflow", !.x = x, !.rxb = rxb0,
                              !.tnc = 0]
    /\ UNCHANGED <<planVars, ci, fnVars>>

\* n / d for d > 0, rounded to the nearest integer as float64 rounds a
\* quotient to the nearest value.  With the quotient of the terms p cut off
\* instead, their sum would stay below 1/2 and s above 0 for every input.
RoundDiv(n, d) == (2 * n + d) \div (2 * d)

\* A loop with no limit.
LoopEndsNever(it) == FALSE

\* Line 68: the loop runs while it <= itrmax.
LoopEnds(it) == it > itrmax

\* The error bound tested before the two tests of s.
SeriesChecksErrbdFirst(s, it, errbd) ==
    IF errbd = 0
    THEN [evaluated |-> <<"errbd">>, fired |-> "errbd"]
    ELSE IF s < 0
    THEN [evaluated |-> <<"errbd", "guard">>, fired |-> "guard"]
    ELSE IF s <= 0 /\ it > 1
    THEN [evaluated |-> <<"errbd", "guard", "nonpositive">>,
          fired |-> "nonpositive"]
    ELSE [evaluated |-> <<"errbd", "guard", "nonpositive">>, fired |-> "none"]

\* Lines 80-90: the tests of an iteration in the order of the source, up to
\* the first that fires: the guard s < -1e-10, then s <= 0 && it > 1, then
\* |errbd| < errmax.
SeriesChecks(s, it, errbd) ==
    IF s < 0
    THEN [evaluated |-> <<"guard">>, fired |-> "guard"]
    ELSE IF s <= 0 /\ it > 1
    THEN [evaluated |-> <<"guard", "nonpositive">>, fired |-> "nonpositive"]
    ELSE IF errbd = 0
    THEN [evaluated |-> <<"guard", "nonpositive", "errbd">>, fired |-> "errbd"]
    ELSE [evaluated |-> <<"guard", "nonpositive", "errbd">>, fired |-> "none"]

\* Lines 68-91: one iteration of the series.  The thresholds -1e-10 and
\* 1e-12 lie below the grid: s < -1e-10 is s < 0, and |errbd| < 1e-12 is
\* errbd = 0.  After itrmax iterations control falls into the code below
\* the loop.
CDFSeries ==
    /\ cdf.pc = "series"
    /\ ~LoopEnds(cdf.it)
    /\ LET it == cdf.it
           a == cdf.a + Unit
           xodd == cdf.xodd - cdf.godd
           xeven == cdf.xeven - cdf.geven
           godd == Mul(cdf.godd, Div(Mul(cdf.x, a + cdf.b - Unit), a))
           geven == Mul(cdf.geven,
                        Div(Mul(cdf.x, a + cdf.b - Unit \div 2),
                            a + Unit \div 2))
           p == RoundDiv(cdf.p * cdf.lambda, 2 * it * Unit)
           q == Div(Mul(cdf.q, cdf.lambda), Fix(2 * it + 1))
           s == cdf.s - p
           tnc == cdf.tnc + Mul(p, xodd) + Mul(q, xeven)
           errbd == 2 * Mul(s, xodd - godd)
           c == SeriesChecks(s, it, errbd)
           stop == c.fired # "none"
       IN cdf' = [cdf EXCEPT !.a = a, !.xodd = xodd, !.xeven = xeven,
                             !.godd = godd, !.geven = geven, !.p = p,
                             !.q = q, !.s = s, !.tnc = tnc,
                             !.it = IF stop THEN it ELSE it + 1,
                             !.exhausted = ~stop /\ LoopEnds(it + 1),
                             !.checks = c.evaluated, !.exit = c.fired,
                             !.pc = IF stop THEN "finis"
                                    ELSE IF LoopEnds(it + 1) THEN "overflow"
                                    ELSE "series"]
    /\ UNCHANGED <<planVars, ci, fnVars>>

\* Lines 96-99: the normal approximation.
CDFOverflow ==
    /\ cdf.pc = "overflow"
    /\ LET s == FDiv(Unit, 4 * cdf.Nu)
           sigma == FSqrt(FAdd(Unit, FMul(FMul(cdf.tt, cdf.tt), 2 * s)))
       IN cdf' = [cdf EXCEPT
                     !.pc = "done", !.s = s, !.fallback = TRUE,
                     !.result = pnorm(FMul(cdf.tt, Unit - s), cdf.del, sigma,
                                      ~cdf.negdel)]
    /\ UNCHANGED <<planVars, ci, fnVars>>

\* A term that is 0 for every del.
PhiTermZero(del) == 0

\* Line 101: Phi(-del).
PhiTerm(del) == pnorm(0 - del, 0, Unit, TRUE)

\* A result left as it is.
InvertedNot(p) == p

\* Line 108: 0.5 - p + 0.5.
Inverted(p) == Unit \div 2 - p + Unit \div 2

\* Lines 100-109: the sum of the series, Phi(-del) added, at most 1.
CDFFinis ==
    /\ cdf.pc = "finis"
    /\ LET tnc == cdf.tnc + PhiTerm(cdf.del)
           p == FMin(tnc, Unit)
       IN cdf' = [cdf EXCEPT
                     !.pc = "done", !.sum = cdf.tnc, !.tnc = tnc, !.p = p,
                     !.result = IF ~cdf.negdel THEN p ELSE Inverted(p)]
    /\ UNCHANGED <<planVars, ci, fnVars>>

\* Calls that leave the loop of the series in each of its ways: by the
\* guard s < -1e-10, by s <= 0 after the first iteration, and with none of
\* the tests met within itrmax iterations.
CDFLoopCalls ==
    {[Nu |-> 2 * Unit, Ncp |-> 1442, t |-> 2 * Unit],
     [Nu |-> 2 * Unit, Ncp |-> 550, t |-> 2 * Unit],
     [Nu |-> 2 * Unit, Ncp |-> 3 * Unit, t |-> 2 * Unit]}

\* CDF(t) is called on one of these distributions.
CDFCallLoop ==
    /\ cdf.pc = "idle"
    /\ \E c \in CDFLoopCalls :
          cdf' = [CDFIdle EXCEPT !.pc = "guard", !.Nu = c.Nu, !.Ncp = c.Ncp,
                                 !.t = c.t]
    /\ UNCHANGED <<planVars, ci, fnVars>>

\* After CDF(t) has returned for {Nu, Ncp}, CDF(-t) is called on
\* {Nu, -Ncp}; the first call is remembered.
CDFMirror ==
    /\ cdf.pc = "done"
    /\ ~cdf.first.set
    /\ cdf' = [CDFIdle EXCEPT
                  !.pc = "guard", !.Nu = cdf.Nu, !.Ncp = FNeg(cdf.Ncp),
                  !.t = FNeg(cdf.t),
                  !.first = [set |-> TRUE, Ncp |-> cdf.Ncp, t |-> cdf.t,
                             fallback |-> cdf.fallback,
                             result |-> cdf.result]]
    /\ UNCHANGED <<planVars, ci, fnVars>>

CDFNext ==
    \/ CDFCall
    \/ CDFGuard
    \/ CDFSeed
    \/ CDFSeries
    \/ CDFOverflow
    \/ CDFFinis

(***************************************************************************)
(* A call of f of Mom.CI: src/evalue.go, line 65, and Mom.eValue.          *)
(***************************************************************************)

\* The largest degrees of freedom nu of a call.
MaxNu == 4
EVTs == {0, 0 - Unit, 2 * Unit, 5 * Unit}
EVNEffs == {Unit \div 2, Unit, (3 * Unit) \div 2, 2 * Unit}
EVGs == {1, NewMom(Unit), NewMom(2 * Unit)}
EVAlphas == {Unit \div 20, Unit \div 2, Unit - 1}

EVIdle == [called |-> FALSE, t |-> 0, nu |-> 0, nEff |-> 0, g |-> 0,
           alpha |-> 0, s |-> 0, f |-> 0]

\* f(t) is called: the e-value of t, and the e-value minus 1/alpha.
EValueCall ==
    /\ ~ev.called
    /\ \E t \in EVTs, nu \in 1..MaxNu, nEff \in EVNEffs, g \in EVGs,
          alpha \in EVAlphas :
          ev' = [called |-> TRUE, t |-> t, nu |-> nu, nEff |-> nEff,
                 g |-> g, alpha |-> alpha,
                 s |-> MomEValue(t, nu, nEff, g),
                 f |-> CIObjective(t, nu, nEff, g, alpha)]
    /\ UNCHANGED <<planVars, ci, cdf, qt, ob, br>>

\* The caller has taken the value and may call again.
EValueReturn ==
    /\ ev.called
    /\ ev' = EVIdle
    /\ UNCHANGED <<planVars, ci, cdf, qt, ob, br>>

EValueNext ==
    \/ EValueCall
    \/ EValueReturn

(***************************************************************************)
(* The bracket finder: src/unnamed/part_001, findBracketMono.              *)
(*                                                                         *)
(* Every point the function evaluates is 0 or the guess times a power of   *)
(* 2, which float64 holds exactly short of overflow and underflow.  A      *)
(* point is [sgn, exp] for sgn * |guess| * 2^exp.  A strictly increasing f *)
(* enters the function only through the signs of its values, which the     *)
(* root fixes: the root is [sgn, exp2] for sgn * |guess| * 2^(exp2 / 2),   *)
(* on a point for an even exp2 and between two points for an odd one.      *)
(***************************************************************************)

\* The iterations of the loop.
maxIter == 200

Zero == [sgn |-> 0, exp |-> 0]
BRGuesses == {[sgn |-> sg, exp |-> 0] : sg \in {0 - 1, 0, 1}}
BRRootExps == {0, 1, 2, 5, 2 * maxIter, 2 * maxIter + 1, 2 * maxIter + 2,
               2 * maxIter + 3, 2 * maxIter + 6}
BRRoots == {[sgn |-> 0, exp2 |-> 0]} \cup
           {[sgn |-> sg, exp2 |-> e] :
               sg \in {0 - 1, 1}, e \in BRRootExps \cup {0 - h : h \in BRRootExps}}

\* The sign of x - y for magnitudes 2^(ex / 2) and 2^(ey / 2) of sign sg.
SignOfDifference(sx, ex, sy, ey) ==
    IF sx # sy THEN (IF sx < sy THEN 0 - 1 ELSE 1)
    ELSE IF sx = 0 \/ ex = ey THEN 0
    ELSE IF (ex < ey) = (sx > 0) THEN 0 - 1 ELSE 1

\* The sign of f(x) for the strictly increasing f with the given root.
SignOfF(x, root) == SignOfDifference(x.sgn, 2 * x.exp, root.sgn, root.exp2)

\* guess * -1.
Negated(x) == [x EXCEPT !.sgn = 0 - @]

\* x * r for r = 2 (step 1) and r = 1/2 (step -1).
Scaled(x, step) == IF x.sgn = 0 THEN x ELSE [x EXCEPT !.exp = @ + step]

\* Negates only a positive guess.
NegatesPositive(guess, f0) == guess.sgn > 0 /\ f0 > 0

\* Never negates.
NegatesNever(guess, f0) == FALSE

\* Line 10: whether the guess is negated.
Negates(guess, f0) ==
    (guess.sgn < 0 /\ f0 < 0) \/ (guess.sgn > 0 /\ f0 > 0)

\* The rate 2 whatever a and fa are.
RateTwo(a, fa) == 1

\* Lines 17-21: the rate r, as the step of the exponent.
Rate(a, fa) == IF (a.sgn > 0) = (fa < 0) THEN 1 ELSE 0 - 1

\* The test of the sign bits alone.
BreaksOnSignbit(fa, fb) == (fa < 0) # (fb < 0)

\* Line 26: whether the loop ends at the pair with values fa and fb.  An
\* exact zero of f is +0.
Breaks(fa, fb) == (fa < 0) # (fb < 0) \/ fa = 0 \/ fb = 0

BRIdle == [pc |-> "idle", guess0 |-> Zero, root |-> [sgn |-> 0, exp2 |-> 0],
           guess |-> Zero, f0 |-> 0, a |-> Zero, fa |-> 0, r |-> 0,
           b |-> Zero, fb |-> 0, iter |-> 0, evals |-> 0, broke |-> FALSE,
           result |-> <<Zero, Zero>>]

\* findBracketMono is called on a strictly increasing f and a guess.
BRCall ==
    /\ br.pc = "idle"
    /\ \E guess \in BRGuesses, root \in BRRoots :
          br' = [BRIdle EXCEPT !.pc = "negate", !.guess0 = guess,
                               !.guess = guess, !.root = root]
    /\ UNCHANGED <<planVars, ci, cdf, ev, qt, ob>>

\* Lines 9-12: f(0), and the guess on the side of the root.
BRNegate ==
    /\ br.pc = "negate"
    /\ LET f0 == SignOfF(Zero, br.root)
       IN br' = [br EXCEPT !.pc = "rate", !.f0 = f0, !.evals = @ + 1,
                           !.guess = IF Negates(br.guess, f0)
                                     THEN Negated(br.guess) ELSE br.guess]
    /\ UNCHANGED <<planVars, ci, cdf, ev, qt, ob>>

\* Lines 15-24: the rate and the first pair.
BRRate ==
    /\ br.pc = "rate"
    /\ LET a == br.guess
           fa == SignOfF(a, br.root)
           r == Rate(a, fa)
           b == Scaled(a, r)
       IN br' = [br EXCEPT !.pc = "loop", !.a = a, !.fa = fa, !.r = r,
                           !.b = b, !.fb = SignOfF(b, br.root),
                           !.evals = @ + 2]
    /\ UNCHANGED <<planVars, ci, cdf, ev, qt, ob>>

\* Lines 25-32: one turn of the loop.
BRLoop ==
    /\ br.pc = "loop"
    /\ br.iter < maxIter
    /\ br' = IF Breaks(br.fa, br.fb)
             THEN [br EXCEPT !.pc = "return", !.broke = TRUE]
             ELSE LET b == Scaled(br.b, br.r)
                  IN [br EXCEPT !.a = br.b, !.fa = br.fb, !.b = b,
                                !.fb = SignOfF(b, br.root),
                                !.iter = @ + 1, !.evals = @ + 1]
    /\ UNCHANGED <<planVars, ci, cdf, ev, qt, ob>>

\* Line 34: the pair is returned, after a break or after the last turn.
BRReturn ==
    /\ \/ br.pc = "return"
       \/ br.pc = "loop" /\ br.iter = maxIter
    /\ br' = [br EXCEPT !.pc = "done", !.result = <<br.a, br.b>>]
    /\ UNCHANGED <<planVars, ci, cdf, ev, qt, ob>>

BRNext ==
    \/ BRCall
    \/ BRNegate
    \/ BRRate
    \/ BRLoop
    \/ BRReturn

(***************************************************************************)
(* NoncentralT.Quantile: src/distuv/noncentralt.go, lines 112-114.         *)
(***************************************************************************)

\* A quantile function that answers with its argument.
QuantileOfP(Nu, Ncp, p) == p

\* Lines 112-114: the body is "return -1".
NoncentralTQuantile(Nu, Ncp, p) == 0 - Unit

QTPs == {0, Unit \div 5, Unit \div 2, Unit, NaN}

QTIdle == [pc |-> "idle", Nu |-> 0, Ncp |-> 0, p |-> 0, ofCDF |-> FALSE,
           t |-> 0, result |-> 0]

\* Quantile is called on a distribution and a p.
QTCall ==
    /\ qt.pc = "idle"
    /\ \E nu \in CDFNus, ncp \in CDFNcps, p \in QTPs :
          qt' = [QTIdle EXCEPT !.pc = "done", !.Nu = nu, !.Ncp = ncp, !.p = p,
                               !.result = NoncentralTQuantile(nu, ncp, p)]
    /\ UNCHANGED <<planVars, ci, cdf, ev, ob, br>>

\* Quantile is called on the value that CDF has returned for t.
QTInvert ==
    /\ qt.pc = "idle"
    /\ cdf.pc = "done"
    /\ qt' = [QTIdle EXCEPT !.pc = "done", !.Nu = cdf.Nu, !.Ncp = cdf.Ncp,
                            !.p = cdf.result, !.ofCDF = TRUE, !.t = cdf.t,
                            !.result = NoncentralTQuantile(cdf.Nu, cdf.Ncp,
                                                           cdf.result)]
    /\ UNCHANGED <<planVars, ci, cdf, ev, ob, br>>

QTNext ==
    \/ QTCall
    \/ QTInvert

(***************************************************************************)
(* The function f of getNPlanBatch: src/evalue.go, lines 271-277.          *)
(***************************************************************************)

\* The arguments of getNPlanBatch and the nEff f is called on.  With
\* ratio = 1 the degrees of freedom 4 * nEff - 2 are integers.
OBRatios == {Unit}
OBNEffs == {Unit, (3 * Unit) \div 2, 2 * Unit}
OBDeltas == {0 - Unit, Unit \div 2, Unit}
OBBetas == {Unit \div 5, Unit \div 2, (4 * Unit) \div 5}

\* Line 273: nu.
BatchNu(ratio, nEff) ==
    Mul(Div(Mul(Unit + ratio, Unit + ratio), ratio), nEff) - 2 * Unit

\* Line 274: the noncentrality, for the delta of line 271.
BatchNcp(nEff, delta) == Mul(Sqrt(nEff), Abs(delta))

OBIdle == [pc |-> "idle", alpha |-> 0, beta |-> 0, delta |-> 0, ratio |-> 0,
           g |-> 0, nEff |-> 0, nu |-> 0, ncp |-> 0, t |-> 0, s |-> 0,
           f |-> 0]

\* Lines 272-277: f is called on nEff.
OBCall ==
    /\ ob.pc = "idle"
    /\ \E alpha \in EVAlphas, beta \in OBBetas, delta \in OBDeltas,
          ratio \in OBRatios, g \in EVGs, nEff \in OBNEffs :
          LET nu == BatchNu(ratio, nEff)
              ncp == BatchNcp(nEff, delta)
              t == NoncentralTQuantile(nu, ncp, beta)
              s == MomEValue(t, nu \div Unit, nEff, g)
          IN ob' = [pc |-> "done", alpha |-> alpha, beta |-> beta,
                    delta |-> delta, ratio |-> ratio, g |-> g,
                    nEff |-> nEff, nu |-> nu, ncp |-> ncp, t |-> t,
                    s |-> s, f |-> FSub(s, Div(Unit, alpha))]
    /\ UNCHANGED <<planVars, ci, cdf, ev, qt, br>>

OBNext == OBCall

(***************************************************************************)
(* The specifications.                                                     *)
(***************************************************************************)

vars == <<planVars, ci, cdf, fnVars>>

FnInit == ev = EVIdle /\ qt = QTIdle /\ ob = OBIdle /\ br = BRIdle

InitPlan == PlanInit /\ ci = CIIdle /\ cdf = CDFIdle /\ FnInit
SpecPlan == InitPlan /\ [][PlanNext]_vars

InitCI == PlanInit /\ arch = "amd64" /\ ci = CIIdle /\ cdf = CDFIdle /\ FnInit
SpecCI == InitCI /\ [][CINext]_vars

InitCDF == PlanInit /\ arch = "amd64" /\ ci = CIIdle /\ cdf = CDFIdle /\ FnInit
SpecCDF == InitCDF /\ [][CDFNext]_vars

SpecEValue == InitCI /\ [][EValueNext]_vars

\* Calls of CDF, long series and mirrored calls among them.
SpecCDFSeries == InitCDF /\ [][CDFNext \/ CDFCallLoop \/ CDFMirror]_vars

\* Calls of Quantile, on any p and on values of CDF.
SpecQuantile == InitCDF /\ [][CDFNext \/ QTNext]_vars

\* Calls of f of getNPlanBatch, and of CDF.
SpecBatch == InitCDF /\ [][CDFNext \/ OBNext]_vars

\* Every step of findBracketMono is taken: the function runs on its own.
SpecBracket == InitCI /\ [][BRNext]_vars /\ WF_vars(BRNext)


(***************************************************************************)
(* Claims about GetNPlan.                                                  *)
(***************************************************************************)

\* The e-value of checkpoint k of the running trial, from the statistics
\* of the trial, whether the trial gets to evaluate it or not.
EValueAt(k) ==
    CheckpointEValue(n1Vector[k], n2Vector[k],
                     interpolate1.x[k], interpolate2.x[k],
                     interpolate1.x2[k], interpolate2.x2[k],
                     NewMom(args.deltaMin))
\* The checkpoints of the running trial whose e-value is above 1/alpha.
Exceeding ==
    {k \in 1..nPlan.Batch : FGt(EValueAt(k), Div(Unit, args.alpha))}
FirstOf(S) == CHOOSE k \in S : \A m \in S : k <= m

\* C1: a trial evaluates the checkpoints 1, 2, ... in this order; it ends
\* with StopT = n1 of the first checkpoint whose e-value is strictly above
\* 1/alpha, having evaluated no checkpoint after it, and with StopT =
\* notStopped exactly when no checkpoint of the trial has such an e-value.
C1_StopsAtFirstExceeding ==
    /\ pc \in {"checkpoint", "endTrial"} =>
          /\ Len(eValues) <= nPlan.Batch
          /\ \A k \in 1..Len(eValues) : eValues[k] = EValueAt(k)
    /\ pc = "checkpoint" =>
          /\ Len(eValues) = i
          /\ stopT = notStopped
          /\ \A k \in 1..i : k \notin Exceeding
    /\ pc = "endTrial" =>
          /\ (stopT = notStopped) <=> (Exceeding = {})
          /\ Exceeding = {} => Len(eValues) = nPlan.Batch
          /\ Exceeding # {} =>
                /\ stopT = n1Vector[FirstOf(Exceeding)]
                /\ Len(eValues) = FirstOf(Exceeding)

\* A trial has stopped at a checkpoint before the last one.
C1_Witness ==
    /\ pc = "endTrial"
    /\ stopT # notStopped
    /\ stopT < nPlan.Batch
    /\ stopT > 1

C8_ReturnsAfterSentinel ==
    (calls > 0 /\ args.brent.err) =>
        /\ nPlan.Batch = 0 - 1
        /\ n1Vector = <<>>
        /\ pc # "panic"

\* C8, amended: after getNPlanBatch signals failure, GetNPlan does not
\* check the pair: it sets Batch = -1 and builds no checkpoints, then
\* panics allocating the sample buffers of length -1.  It runs no trial
\* and returns no NPlan.
C8_PanicsAfterSentinel ==
    (calls > 0 /\ args.brent.err) =>
        /\ nPlan.Batch = 0 - 1
        /\ batch2 = 0 - 1
        /\ n1Vector = <<>>
        /\ n2Vector = <<>>
        /\ pc \in {"checkpoints", "allocate", "panic"}
        /\ nPlan.StopT = <<>>
        /\ Len(returned) < calls

\* The call has panicked on the sentinel pair.
C8_Witness ==
    /\ pc = "panic"
    /\ args.brent.err
    /\ nPlan.Batch = 0 - 1
    /\ returned = <<>>


\* The stopping times of the plan as float64 values, ascending: the
\* ascending sequence with the same values, each as often.
Times == [j \in 1..Len(nPlan.StopT) |->
            IF nPlan.StopT[j] = notStopped THEN PosInf
            ELSE Fix(nPlan.StopT[j])]
Occurs(x, v) == Cardinality({j \in DOMAIN x : x[j] = v})
AscendingTimes ==
    LET vals == {Times[j] : j \in DOMAIN Times}
    IN CHOOSE x \in [DOMAIN Times -> vals] :
          /\ \A a, b \in DOMAIN x : a <= b => x[a] <= x[b]
          /\ \A v \in vals : Occurs(x, v) = Occurs(Times, v)

\* The (1 - beta) quantile of the ascending times by linear interpolation
\* between the order statistics around position (1 - beta) * n.
QuantileOfTimes ==
    LET x == AscendingTimes
        n == Len(nPlan.StopT)
        h == (Unit - args.beta) * n
        k == CHOOSE m \in 1..n :
                Fix(m) >= h /\ \A l \in 1..n : Fix(l) >= h => m <= l
        t == Fix(k) - h
    IN IF k = 1 THEN x[1]
       ELSE IF IsFinite(x[k]) THEN (t * x[k - 1] + (Unit - t) * x[k]) \div Unit
       ELSE IF IsFinite(x[k - 1]) THEN PosInf
       ELSE IF t = 0 THEN NaN ELSE PosInf

\* The least integer that is at least a / b, for b > 0.
CeilOfRatio(a, b) == 0 - ((0 - a) \div b)

\* The sum of f over 1..n.
RECURSIVE SumTo(_, _)
SumTo(f, n) == IF n = 0 THEN 0 ELSE f[n] + SumTo(f, n - 1)

\* The ceiling of the average of min(N, stopping time) over all trials; a
\* trial that has not stopped counts as N.  float64(N) is 2^63 for the
\* largest int64.
MeanOfClipped ==
    LET nf == IF nPlan.N = MaxInt64 THEN MaxInt64 + 1 ELSE nPlan.N
        clip == [j \in 1..Len(nPlan.StopT) |->
                    IF nPlan.StopT[j] = notStopped \/ nPlan.StopT[j] > nf
                    THEN nf ELSE nPlan.StopT[j]]
    IN CeilOfRatio(SumTo(clip, Len(clip)), Len(clip))

\* C9: N is the ceiling of the (1 - beta) quantile, by linear
\* interpolation, of the ascending stopping times in which notStopped
\* counts as +Inf (when that quantile is not finite it has no int value,
\* and N is what the conversion to int yields on the build target); Mean is
\* the ceiling of the average of min(N, stopping time); the returned StopT
\* keeps the raw stopping time of every trial, notStopped included, next to
\* the trial's e-value trace.
C9_Aggregation ==
    pc = "done" =>
        LET q == QuantileOfTimes
            m == MeanOfClipped
        IN /\ IsFinite(q) => nPlan.N = CeilOfRatio(q, Unit)
           /\ q = PosInf => nPlan.N \in {MinInt64, MaxInt64}
           /\ IsNaN(q) => nPlan.N \in {MinInt64, 0}
           /\ m \in MinInt64..MaxInt64 => nPlan.Mean = m
           /\ m > MaxInt64 => nPlan.Mean \in {MinInt64, MaxInt64}
           /\ Len(nPlan.StopT) = Len(nPlan.EValue)
           /\ \A j \in 1..Len(nPlan.StopT) :
                 LET trace == nPlan.EValue[j]
                 IN nPlan.StopT[j] =
                       IF FGt(trace[Len(trace)], Div(Unit, args.alpha))
                       THEN Len(trace) ELSE notStopped

\* A plan is returned for trials of which one has stopped and one has not,
\* with N among the checkpoints.
C9_Witness ==
    /\ pc = "done"
    /\ \E j \in 1..Len(nPlan.StopT) : nPlan.StopT[j] = notStopped
    /\ \E j \in 1..Len(nPlan.StopT) : nPlan.StopT[j] > 1
    /\ nPlan.N \in 1..nPlan.Batch

\* C10: the calls of GetNPlan with the same (alpha, beta, deltaMin) and no
\* options return identical plans: N, Mean, Batch, StopT and e-value
\* traces.
C10_SameArgsSamePlan ==
    args.options = <<>> =>
        \A a, b \in 1..Len(returned) : returned[a] = returned[b]

\* Two calls without options have returned, and a trial has stopped.
C10_Witness ==
    /\ args.options = <<>>
    /\ Len(returned) = 2
    /\ \E j \in 1..Len(returned[2].StopT) : returned[2].StopT[j] # notStopped


(***************************************************************************)
(* Claims about the checkpoints of GetNPlan.                               *)
(***************************************************************************)

\* The checkpoint vectors have been built in the current call.
CheckpointsBuilt ==
    pc \in {"allocate", "generate", "interpolate", "checkpoint", "endTrial",
            "aggregate", "done", "panic"}

\* C24: GetNPlan builds one checkpoint for each i = 1..n1_batch, Batch of
\* them: n1[i] = i and n2[i] = ceil(ratio * i); the two vectors have the
\* same length and do not decrease in i.
C24_Checkpoints ==
    CheckpointsBuilt =>
        LET ratio == OptionsOf(args.options).ratio
        IN /\ DOMAIN n1Vector = 1..nPlan.Batch
           /\ DOMAIN n2Vector = 1..nPlan.Batch
           /\ nPlan.Batch >= 0 =>
                 Len(n1Vector) = nPlan.Batch /\ Len(n2Vector) = nPlan.Batch
           /\ \A k \in 1..nPlan.Batch :
                 /\ n1Vector[k] = k
                 /\ Fix(n2Vector[k]) >= Mul(ratio, Fix(k))
                 /\ Fix(n2Vector[k] - 1) < Mul(ratio, Fix(k))
           /\ \A k \in 2..nPlan.Batch :
                 /\ n1Vector[k - 1] <= n1Vector[k]
                 /\ n2Vector[k - 1] <= n2Vector[k]

\* Three checkpoints have been built for the ratio 1/2, where ceil(ratio * i)
\* is not ratio * i.
C24_Witness ==
    /\ CheckpointsBuilt
    /\ OptionsOf(args.options).ratio = Unit \div 2
    /\ nPlan.Batch = 3
    /\ n2Vector = <<1, 1, 2>>

\* The traces of the finished trials and of the running one.
Traces == nPlan.EValue \o <<eValues>>

\* The stopping times of the finished trials and of the running one.
Stops == nPlan.StopT \o <<stopT>>

\* C25: at a checkpoint with nu = n1 + n2 - 2 <= 0 the recorded e-value is
\* exactly 1, whatever the statistics are, and no trial stops there: with
\* ratio = 1 no trial stops at n1 = 1.
C25_NoEvidenceWithoutFreedom ==
    CheckpointsBuilt =>
        \A j \in 1..Len(Traces) :
            \A k \in 1..Len(Traces[j]) :
                n1Vector[k] + n2Vector[k] - 2 <= 0 =>
                    /\ Traces[j][k] = Unit
                    /\ ~FGt(Traces[j][k], Div(Unit, args.alpha))
                    /\ Stops[j] # n1Vector[k]

\* A trial with ratio = 1 has passed the checkpoint n1 = n2 = 1, where the
\* two groups differ, and has stopped later.
C25_Witness ==
    /\ pc = "endTrial"
    /\ OptionsOf(args.options).ratio = Unit
    /\ Len(eValues) >= 2 /\ eValues[1] = Unit
    /\ interpolate1.x[1] # interpolate2.x[1]
    /\ stopT > 1


(***************************************************************************)
(* Claims about Mom.CI.                                                    *)
(***************************************************************************)

CIDone == ci.pc = "done"
CIUnbounded == ci.result = <<NegInf, PosInf>>
CIFinite == IsFinite(ci.result[1]) /\ IsFinite(ci.result[2])
CIAllFailed == ci.failures = ci.invocations

\* C4, as stated: Mom.CI returns (-Inf, +Inf) if and only if every
\* root-finder invocation of the doubling loop failed, and never an
\* interval with one finite and one infinite end.
C4_UnboundedIffAllFailed ==
    CIDone => /\ CIUnbounded <=> CIAllFailed
              /\ IsFinite(ci.result[1]) <=> IsFinite(ci.result[2])

\* C4, amended: Mom.CI returns (-Inf, +Inf) when every root-finder
\* invocation of the doubling loop failed; after a successful invocation it
\* returns (-Inf, +Inf) only for samples whose pooled standard deviation
\* has overflowed to +Inf; it never returns an interval with one finite
\* and one infinite end, and every call ends with an interval.
C4_UnboundedAfterAllFailed ==
    CIDone => /\ CIAllFailed => CIUnbounded
              /\ CIUnbounded => CIAllFailed \/ ci.t.Sp = PosInf
              /\ IsFinite(ci.result[1]) <=> IsFinite(ci.result[2])

\* All 15 invocations have failed and the unbounded interval is returned.
C4_Witness == CIDone /\ CIAllFailed /\ ci.invocations = 15 /\ CIUnbounded

\* C5: after a successful root-finder invocation with root tAlpha in
\* [0, b], Mom.CI returns [d - w, d + w] for d = mean1 - mean2 and
\* w = sp / sqrt(nEff) * tAlpha: the two ends are equally far from d and the
\* lower end is not above the upper end.
C5_IntervalAroundDifference ==
    CIDone /\ ~ci.err =>
        LET d == FSub(StatMean(ci.x), StatMean(ci.y))
            w == FMul(FDiv(ci.t.Sp, FSqrt(ci.t.NEff)), ci.tAlpha)
        IN /\ ci.tAlpha >= 0 /\ ci.tAlpha <= ci.b
           /\ ci.result = <<FSub(d, w), FAdd(d, w)>>
           /\ FSub(ci.result[2], d) = FSub(d, ci.result[1])
           /\ ~FGt(ci.result[1], ci.result[2])

\* A root is found after a failed invocation, and the interval has a
\* positive finite width.
C5_Witness ==
    /\ CIDone /\ ~ci.err /\ ci.failures > 0
    /\ CIFinite /\ ci.result[1] < ci.result[2]

\* The t-value recovered from the half-width of the returned interval.
RecoveredT ==
    FDiv(FMul((ci.result[2] - ci.result[1]) \div 2, FSqrt(ci.t.NEff)), ci.t.Sp)

\* Whether the e-value at the recovered t-value is 1/alpha within the
\* tolerance of the solver.  The tolerance bounds the distance of t from
\* the root; on the fixed-point grid it is 2% of t and two grid steps, and
\* the e-value, which grows with t, passes 1/alpha within that distance.
RoundTrips ==
    LET t == RecoveredT
        tol == t \div 50 + 2
        target == Div(Unit, ci.alpha)
    IN /\ IsFinite(t)
       /\ MomEValue(t - tol, ci.t.Nu, ci.t.NEff, ci.g) <= target
       /\ MomEValue(t + tol, ci.t.Nu, ci.t.NEff, ci.g) >= target

\* C6, as stated: for every (x, y, alpha) whose interval is finite, the
\* t-value recovered from the half-width, width * sqrt(nEff) / sp, gives
\* eValue(t, nu, nEff) = 1/alpha within the solver tolerance.
C6_RoundTrip == CIDone /\ CIFinite => RoundTrips

\* C6, amended: for every (x, y, alpha) whose interval is finite and whose
\* pooled standard deviation sp is positive, the t-value recovered from the
\* half-width, width * sqrt(nEff) / sp, gives eValue(t, nu, nEff) = 1/alpha
\* within the solver tolerance.
C6_RoundTripPositiveSp == CIDone /\ CIFinite /\ ci.t.Sp > 0 => RoundTrips

\* A finite interval of positive width is returned for alpha = 1/20.
C6_Witness ==
    /\ CIDone /\ CIFinite /\ ci.t.Sp > 0
    /\ ci.alpha = Unit \div 20 /\ ci.result[1] < ci.result[2]


(***************************************************************************)
(* Claims about NoncentralT.CDF.                                           *)
(***************************************************************************)

\* C7: for Nu <= 0, whatever t and the noncentrality are, CDF returns NaN:
\* the call goes from the check of Nu straight to its return, without
\* seeding or running the series and without the normal approximation.
C7_NaNForNonPositiveNu ==
    cdf.pc # "idle" /\ ~IsNaN(cdf.Nu) /\ cdf.Nu <= 0 =>
        /\ cdf.pc \in {"guard", "done"}
        /\ ~cdf.series
        /\ cdf.pc = "done" => IsNaN(cdf.result)

\* CDF has returned for Nu = 0, a nonzero noncentrality and a positive t.
C7_Witness ==
    /\ cdf.pc = "done" /\ cdf.Nu = 0 /\ cdf.Ncp # 0 /\ FGt(cdf.t, 0)
    /\ IsNaN(cdf.result)


(***************************************************************************)
(* Claims about Mom.eValue.                                                *)
(***************************************************************************)

\* C11: for nu > 0, nEff > 0 and G > 0 the e-value of t = 0 is
\* (1 + nEff * G)^(-3/2), to the precision of the grid, and at most 1; for
\* alpha < 1 the function f of Mom.CI is negative at t = 0.
C11_EValueAtZero ==
    ev.called /\ ev.t = 0 =>
        LET w == Unit + Mul(ev.nEff, ev.g)
            w32 == Mul(w, Sqrt(w))
        IN /\ Abs(Mul(ev.s, w32) - Unit) <= w32 \div Unit + 2
           /\ ev.s <= Unit
           /\ ev.f < 0

\* f has been called at t = 0 for an alpha next to 1 and the smallest G.
C11_Witness ==
    ev.called /\ ev.t = 0 /\ ev.alpha = Unit - 1 /\ ev.g = 1 /\ ev.s > 0


(***************************************************************************)
(* Claims about findBracketMono.                                           *)
(***************************************************************************)

\* The values fa and fb enclose a root: their signs differ or one is zero.
IsBracket(fa, fb) == fa * fb <= 0

BRDone == br.pc = "done"

\* The returned pair encloses the root of f.
ResultBrackets ==
    IsBracket(SignOfF(br.result[1], br.root), SignOfF(br.result[2], br.root))

\* The guess and the root are not zero, and the root is no farther than a
\* factor 2^(maxIter + 1) from the guess, towards zero or away from it.
WithinReach ==
    /\ br.guess0.sgn # 0
    /\ br.root.sgn # 0
    /\ Abs(br.root.exp2) <= 2 * (maxIter + 1)

C17_NegatesTowardsRoot ==
    br.pc \notin {"idle", "negate"} =>
        LET f0 == SignOfF(Zero, br.root)
            cond == \/ br.guess0.sgn < 0 /\ f0 < 0
                    \/ br.guess0.sgn > 0 /\ f0 > 0
        IN /\ br.f0 = f0
           /\ br.guess.sgn = (IF cond THEN 0 - br.guess0.sgn ELSE br.guess0.sgn)
           /\ br.guess.exp = br.guess0.exp
           /\ (br.guess0.sgn # 0 /\ f0 # 0) => br.guess.sgn = br.root.sgn
           /\ (br.guess0.sgn = 0 \/ f0 = 0) => br.guess = br.guess0
           /\ br.pc # "rate" /\ br.iter = 0 => br.a = br.guess

\* A negative guess has been negated for a positive root.
C17_Witness ==
    /\ br.pc = "rate"
    /\ br.guess0.sgn < 0 /\ br.root.sgn > 0
    /\ br.guess.sgn > 0

\* C18: the rate is 2 when (a > 0) = (fa < 0) at the first point and 1/2
\* otherwise, and stays so: the point a of turn k is the first point times
\* r^k and b = a * r; every point has the sign of the first one.
C18_FixedRate ==
    br.pc \in {"loop", "return", "done"} =>
        LET fg == SignOfF(br.guess, br.root)
            r == IF (br.guess.sgn > 0) = (fg < 0) THEN 1 ELSE 0 - 1
        IN /\ br.r = r
           /\ br.a.sgn = br.guess.sgn /\ br.b.sgn = br.guess.sgn
           /\ br.guess.sgn # 0 =>
                 /\ br.a.exp = br.guess.exp + r * br.iter
                 /\ br.b.exp = br.a.exp + r
           /\ br.guess.sgn = 0 => br.a = Zero /\ br.b = Zero

\* The pair is returned after several halvings of a positive guess.
C18_Witness ==
    /\ BRDone /\ br.r = 0 - 1 /\ br.iter >= 2
    /\ br.guess.sgn > 0

\* The loop has taken at most maxIter turns and f at most maxIter + 3
\* evaluations; no pair before the current one enclosed the root; a break
\* happened at a pair that encloses it; the pair returned is the last one.
C19_Bounded ==
    /\ br.iter <= maxIter
    /\ br.evals <= maxIter + 3
    /\ br.pc \in {"loop", "return", "done"} /\ br.iter > 0 =>
          ~IsBracket(SignOfF(Scaled(br.a, 0 - br.r), br.root), br.fa)
    /\ br.broke => IsBracket(br.fa, br.fb)
    /\ br.pc = "loop" /\ br.iter < maxIter /\ IsBracket(br.fa, br.fb) =>
          ENABLED (BRLoop /\ br'.broke)
    /\ BRDone => br.result = <<br.a, br.b>>
    /\ BRDone /\ ~br.broke => br.iter = maxIter

C13_QuantileIsSentinel ==
    qt.pc = "done" =>
        /\ qt.result = 0 - Unit
        /\ qt.ofCDF /\ qt.t # 0 - Unit => qt.result # qt.t

\* Quantile has returned for p = CDF(2) of a distribution with Nu > 0, a
\* probability strictly between 0 and 1.
C13_Witness ==
    /\ qt.pc = "done" /\ qt.ofCDF
    /\ qt.Nu > 0 /\ qt.t = 2 * Unit
    /\ qt.p > 0 /\ qt.p < Unit
    /\ qt.result # qt.t


(***************************************************************************)
(* Claims about the two exits of NoncentralT.CDF.                          *)
(***************************************************************************)

CDFDone == cdf.pc = "done" /\ ~IsNaN(cdf.Nu) /\ cdf.Nu > 0

\* The result that the code below "finis" forms from a sum tnc of the
\* series: Phi(-del) added, at most 1, reflected for a negative t.
FromSum(tnc) ==
    LET p == FMin(tnc + pnorm(0 - cdf.del, 0, Unit, TRUE), Unit)
    IN IF ~cdf.negdel THEN p ELSE Unit \div 2 - p + Unit \div 2

\* The normal approximation of the code below "overflow".
NormalApprox ==
    LET s == FDiv(Unit, 4 * cdf.Nu)
    IN pnorm(FMul(cdf.tt, Unit - s), cdf.del,
             FSqrt(FAdd(Unit, FMul(FMul(cdf.tt, cdf.tt), 2 * s))), ~cdf.negdel)

\* The value of p at the seeds of the series.
SeedP == Exp(0 - Mul(cdf.del, cdf.del) \div 2) \div 2

\* C14 as stated: after the series and after the overflow branch alike the
\* result is formed from tnc + Phi(-del), at most 1.
C14_SumOnEveryExit ==
    CDFDone => cdf.result = FromSum(IF cdf.fallback THEN cdf.tnc ELSE cdf.sum)

\* C14: for Nu > 0, after the series has ended at "finis", Phi(-del) is
\* added to tnc and the sum is held to at most 1 before the result is
\* formed; the overflow branch returns the normal approximation as it is,
\* with no term added; on both exits the value for t >= 0 is at most 1.
C14_AtMostOne ==
    CDFDone =>
        /\ ~cdf.fallback =>
              /\ cdf.tnc = cdf.sum + pnorm(0 - cdf.del, 0, Unit, TRUE)
              /\ cdf.p = FMin(cdf.tnc, Unit)
              /\ cdf.result = FromSum(cdf.sum)
        /\ cdf.fallback => cdf.result = NormalApprox
        /\ ~IsNaN(cdf.t) /\ cdf.t >= 0 =>
              ~IsNaN(cdf.result) /\ cdf.result <= Unit

\* CDF has returned for a positive t from the sum of the series, with a
\* positive Phi(-del) added.
C14_Witness ==
    /\ CDFDone /\ cdf.series /\ ~cdf.fallback
    /\ ~IsNaN(cdf.t) /\ cdf.t > 0
    /\ cdf.sum > 0 /\ cdf.tnc > cdf.sum

\* C20 as stated: the result is the normal approximation when p underflows
\* to 0 at the seeds and is formed from tnc + Phi(-del) in every other case.
C20_FallbackIffUnderflow ==
    CDFDone =>
        cdf.result = (IF FGt(cdf.x, 0) /\ SeedP = 0 THEN NormalApprox
                      ELSE FromSum(IF cdf.fallback THEN cdf.tnc ELSE cdf.sum))

\* C20: for Nu > 0 the normal approximation is returned when p underflows
\* to 0 at the seeds, when x > 0 fails (t = 0, where the approximation is
\* Phi(-del), and t = NaN, where it is NaN) and when the loop has used up
\* its iterations; the result is formed from tnc + Phi(-del) when the loop
\* ends on convergence, on the rounding guard or on s <= 0.
C20_FallbackCases ==
    CDFDone =>
        /\ cdf.fallback <=>
              \/ FGt(cdf.x, 0) /\ SeedP = 0
              \/ ~FGt(cdf.x, 0)
              \/ cdf.exhausted
        /\ cdf.fallback => cdf.result = NormalApprox
        /\ ~cdf.fallback => cdf.series /\ cdf.result = FromSum(cdf.sum)
        /\ cdf.t = 0 => cdf.result = FromSum(0)
        /\ IsNaN(cdf.t) => IsNaN(cdf.result)

\* CDF has returned the normal approximation for a positive t after p
\* underflowed to 0.
C20_Witness ==
    /\ CDFDone /\ cdf.fallback /\ ~cdf.series
    /\ FGt(cdf.x, 0) /\ SeedP = 0
    /\ ~IsNaN(cdf.t) /\ cdf.t > 0


(***************************************************************************)
(* Claims about the doubling loop of Mom.CI.                               *)
(***************************************************************************)

\* The right end of the k-th invocation of the root finder: 12 * 2^(k-1).
RightEnd(k) == firstB * 2^(k - 1)

\* The invocations so far used the right ends 12, 24, 48, ..., all below
\* 12 * 2^15; each but a successful last one failed; there are at most 15.
C16_Doubling ==
    ci.pc \in {"loop", "return", "done"} =>
        /\ ci.invocations <= 15
        /\ ci.invocations >= 1 => RightEnd(ci.invocations) < maxB
        /\ ci.invocations \in {ci.failures, ci.failures + 1}
        /\ ci.invocations = ci.failures + 1 <=> ci.invocations >= 1 /\ ~ci.err
        /\ ci.b = RightEnd(ci.failures + 1)
        /\ ci.pc = "loop" => ci.invocations = ci.failures
        /\ ci.pc = "return" => ~ci.err
        /\ ci.pc = "done" => ci.invocations >= 1
        /\ ci.pc = "done" /\ ci.err => ci.invocations = 15
        /\ ci.pc = "loop" /\ ci.b < maxB =>
              Brent(ci.b, ci.t.Nu, ci.t.NEff, ci.g, ci.alpha) # {}

\* A step of the loop is a failed invocation, which doubles b and is one of
\* at most 15, or it leaves the loop; a step after the loop returns.
C16_Progress ==
    /\ ci.pc = "loop" =>
          \/ /\ ci'.pc = "loop"
             /\ ci'.failures = ci.failures + 1
             /\ ci'.b = 2 * ci.b
          \/ ci'.pc = "return" /\ ~ci'.err /\ ci'.b = ci.b
          \/ ci'.pc = "done" /\ ci.b >= maxB /\ ci.err
    /\ ci.pc = "return" => ci'.pc = "done"

\* C16: Mom.CI invokes the root finder on [0, b] with b = 12, 24, 48, ...,
\* doubling b after each failure and stopping at the first success; it
\* makes at least one and at most 15 invocations, every b used is below
\* 12 * 2^15, and the loop ends: a step is possible in every state of the
\* loop, and no more than 15 of them stay in it.
C16_LoopEnds ==
    /\ []C16_Doubling
    /\ [][C16_Progress]_vars

\* Mom.CI has returned after three failures and a success on [0, 96].
C16_Witness ==
    /\ ci.pc = "done" /\ ~ci.err
    /\ ci.failures = 3 /\ ci.invocations = 4
    /\ ci.b = 96 * Unit


(***************************************************************************)
(* Claims about the function f of getNPlanBatch.                           *)
(***************************************************************************)

\* CDF has returned for the distribution and the point t of a call of f.
CDFOfObjective ==
    /\ ob.pc = "done" /\ cdf.pc = "done"
    /\ cdf.Nu = ob.nu /\ cdf.Ncp = ob.ncp /\ cdf.t = ob.t

\* C15: f(nEff) is the e-value at the beta-quantile t of the noncentral t
\* distribution with nu = ((1 + ratio)^2 / ratio) * nEff - 2 and
\* noncentrality sqrt(nEff) * |deltaMin|, less 1/alpha: CDF(t) = beta, to
\* within a hundredth.
C15_ObjectiveAtQuantile ==
    /\ ob.pc = "done" =>
          /\ ob.nu = BatchNu(ob.ratio, ob.nEff)
          /\ ob.ncp = BatchNcp(ob.nEff, ob.delta)
          /\ ob.f = FSub(MomEValue(ob.t, ob.nu \div Unit, ob.nEff, ob.g),
                         Div(Unit, ob.alpha))
    /\ CDFOfObjective => Abs(cdf.result - ob.beta) <= Unit \div 100


(***************************************************************************)
(* Claims about the series loop of NoncentralT.CDF.                        *)
(***************************************************************************)

\* The loop variable it is at most itrmax inside the loop and itrmax + 1
\* after it; a loop that has used up its iterations ends in the code of
\* the normal approximation, whose value is returned.
C21_Bounded ==
    /\ cdf.it <= itrmax + 1
    /\ cdf.pc = "series" => cdf.it <= itrmax
    /\ cdf.exhausted =>
          /\ cdf.it = itrmax + 1
          /\ cdf.pc \in {"overflow", "done"}
          /\ cdf.pc = "done" =>
                /\ cdf.fallback
                /\ cdf.result = NormalApprox
                /\ IsFinite(cdf.result)
                /\ cdf.result >= 0 /\ cdf.result <= Unit

\* A step of a call moves on towards the return: the guard to the seeds
\* or the return, the seeds to the loop or the approximation, an iteration
\* to the next one or out of the loop, the code after the loop to the
\* return.
C21_Progress ==
    /\ cdf.pc = "guard" => cdf'.pc \in {"seed", "done"}
    /\ cdf.pc = "seed" => cdf'.pc \in {"series", "overflow"}
    /\ cdf.pc = "series" =>
          \/ cdf'.pc = "series" /\ cdf'.it = cdf.it + 1
          \/ cdf'.pc \in {"finis", "overflow"}
    /\ cdf.pc \in {"overflow", "finis"} => cdf'.pc = "done"

\* C21: the series loop of CDF runs at most 1000 iterations, every call
\* returns, and a loop that has used up its 1000 iterations returns a
\* defined value.  The iterations are counted by it, which a step of the
\* loop raises by one and which stays at most itrmax + 1; every other step
\* of a call moves on, and a step is possible wherever a call has not
\* returned.
C21_Terminates ==
    /\ []C21_Bounded
    /\ [][C21_Progress]_vars

\* CDF has returned after the loop used up its iterations.
C21_Witness ==
    /\ cdf.pc = "done" /\ cdf.exhausted /\ cdf.it = itrmax + 1
    /\ IsFinite(cdf.result)


\* The number of the last iteration of the series, and its error bound.
LastIteration == IF cdf.exit = "none" THEN cdf.it - 1 ELSE cdf.it
LastErrbd == 2 * Mul(cdf.s, cdf.xodd - cdf.godd)

\* An iteration of the series has run in the current call.
Iterated == cdf.series /\ cdf.checks # <<>>

\* The tests of the last iteration ran in the order guard, s <= 0 with
\* it > 1, error bound, and ended at the first that fired.
ChecksInOrder ==
    /\ cdf.checks \in {<<"guard">>, <<"guard", "nonpositive">>,
                       <<"guard", "nonpositive", "errbd">>}
    /\ cdf.s < 0 <=> cdf.exit = "guard"
    /\ cdf.exit = "guard" <=> cdf.checks = <<"guard">>
    /\ (cdf.s = 0 /\ LastIteration > 1) <=> cdf.exit = "nonpositive"
    /\ cdf.exit = "nonpositive" <=> cdf.checks = <<"guard", "nonpositive">>
    /\ cdf.exit = "errbd" <=> (Len(cdf.checks) = 3 /\ LastErrbd = 0)

\* C22 as stated: the tests run in order, and s <= 0 in the first
\* iteration, short of the rounding guard, does not stop the loop.
C22_FirstIterationGoesOn ==
    Iterated =>
        /\ ChecksInOrder
        /\ (LastIteration = 1 /\ cdf.s <= 0 /\ ~(cdf.s < 0)) => cdf.exit = "none"

\* C22: in each iteration of the series the tests run in this order after
\* tnc is updated: s < -1e-10, then s <= 0 with it > 1, then
\* |2 * s * (xodd - godd)| < 1e-12; the error bound is not tested in an
\* iteration where one of the first two fires.  In the first iteration
\* s <= 0 does not fire the second test, but the loop still stops there by
\* the test of the error bound when s = 0, as it does for delta = 0.
C22_ChecksInOrder ==
    Iterated =>
        /\ ChecksInOrder
        /\ (LastIteration = 1 /\ cdf.s <= 0 /\ ~(cdf.s < 0)) =>
              /\ Len(cdf.checks) = 3
              /\ cdf.exit = "errbd"
              /\ cdf.pc \in {"finis", "done"}

\* The loop has stopped in its first iteration with s = 0, for delta = 0.
C22_Witness ==
    /\ Iterated /\ LastIteration = 1
    /\ cdf.s = 0 /\ cdf.del = 0
    /\ cdf.exit = "errbd" /\ cdf.pc = "finis"


(***************************************************************************)
(* Claims about the reflection of NoncentralT.CDF.                         *)
(***************************************************************************)

\* CDF(-t) on {Nu, -Ncp} has returned after CDF(t) on {Nu, Ncp}, for
\* Nu > 0 and a negative t.
MirrorDone ==
    /\ CDFDone /\ cdf.first.set
    /\ IsFinite(cdf.first.t) /\ cdf.first.t < 0

\* C23: for Nu > 0 and t < 0 the computation runs on (-t, -delta) and its
\* result is inverted: {Nu, delta}.CDF(t) is 0.5 - {Nu, -delta}.CDF(-t) + 0.5
\* when the series gives the result and 1 - {Nu, -delta}.CDF(-t) when the
\* normal approximation does; for t >= 0 nothing is inverted.
C23_Reflection ==
    /\ MirrorDone =>
          /\ cdf.t = 0 - cdf.first.t /\ cdf.Ncp = FNeg(cdf.first.Ncp)
          /\ ~cdf.negdel
          /\ cdf.fallback = cdf.first.fallback
          /\ cdf.first.result =
                (IF cdf.fallback THEN FSub(Unit, cdf.result)
                 ELSE Unit \div 2 - cdf.result + Unit \div 2)
    /\ CDFDone /\ IsFinite(cdf.t) =>
          /\ cdf.negdel <=> cdf.t < 0
          /\ cdf.t >= 0 =>
                cdf.result = (IF cdf.fallback THEN NormalApprox ELSE cdf.p)
          /\ cdf.t < 0 /\ ~cdf.fallback =>
                cdf.result = Unit \div 2 - cdf.p + Unit \div 2

\* Both calls have returned from the series, the first for t = -1 with a
\* result that the inversion changes.
C23_Witness ==
    /\ MirrorDone /\ cdf.series /\ ~cdf.fallback
    /\ cdf.first.t = 0 - Unit /\ cdf.first.Ncp = Unit
    /\ cdf.first.result # cdf.result

(***************************************************************************)
(* Claims about the trials of GetNPlan.                                    *)
(***************************************************************************)

\* interpolator.do has run in the current trial.
Interpolated == pc \in {"checkpoint", "endTrial"}

\* The squares of the observations.
SquaresOf(sample) == [k \in 1..Len(sample) |-> Mul(sample[k], sample[k])]

\* The mean of the first n observations, summed from scratch.
MeanOfFirst(sample, n) == SumTo(sample, n) \div n

\* The sum of squares of the first n observations, summed from scratch.
SquareSumOfFirst(sample, n) == SumTo(SquaresOf(sample), n)

\* C26: for every requested count n, interpolator.do returns the mean of the
\* first n observations and the sum of squares of the first n observations,
\* equal to what a computation from scratch gives.
C26_RunningStatistics ==
    Interpolated =>
        /\ \A k \in 1..Len(n1Vector) :
              /\ interpolate1.x[k] = MeanOfFirst(sample1, n1Vector[k])
              /\ interpolate1.x2[k] = SquareSumOfFirst(sample1, n1Vector[k])
        /\ \A k \in 1..Len(n2Vector) :
              /\ interpolate2.x[k] = MeanOfFirst(sample2, n2Vector[k])
              /\ interpolate2.x2[k] = SquareSumOfFirst(sample2, n2Vector[k])

\* A count above one whose mean is neither zero nor the sum of squares.
C26_Witness ==
    /\ Interpolated
    /\ \E k \in 1..Len(n2Vector) :
          /\ n2Vector[k] > 1 /\ n2Vector[k] # k
          /\ interpolate2.x[k] # 0
          /\ interpolate2.x[k] # interpolate2.x2[k]

\* n is the least integer with n * den >= num (den > 0).
IsCeilOf(n, num, den) == n * den >= num /\ (n - 1) * den < num

\* C27: getNPlanBatch returns the pair (-1, -1) exactly when root.Brent
\* reports an error; otherwise it returns n1 = ceil(nEff * (1 + ratio) / ratio)
\* and n2 = ceil(nEff * (1 + ratio)) for the root nEff.
C27_BatchSizes ==
    calls > 0 =>
        LET ratio == OptionsOf(args.options).ratio
            nEff == args.brent.root
        IN /\ (nPlan.Batch = 0 - 1 /\ batch2 = 0 - 1) <=> args.brent.err
           /\ ~args.brent.err =>
                 /\ IsCeilOf(nPlan.Batch, nEff * (Unit + ratio), Unit * ratio)
                 /\ IsCeilOf(batch2, nEff * (Unit + ratio), Unit * Unit)

\* The root 1/2 with the ratio 1/2: the batch sizes are 2 and 1, both rounded
\* up.
C27_Witness ==
    /\ calls > 0
    /\ ~args.brent.err
    /\ args.brent.root = Unit \div 2
    /\ OptionsOf(args.options).ratio = Unit \div 2
    /\ nPlan.Batch = 2 /\ batch2 = 1

\* The e-value exceeds the rejection threshold 1/alpha.
Exceeds(eVal) == FGt(eVal, Div(Unit, args.alpha))

\* C28: in the NPlan that GetNPlan returns, EValue and StopT have numSamples
\* entries; a trial with StopT[j] # -1 has a trace of StopT[j] e-values of
\* which only the last exceeds 1/alpha, and a trial with StopT[j] = -1 has a
\* trace of Batch e-values of which none exceeds 1/alpha.
C28_ReturnedTraces ==
    pc = "done" =>
        /\ Len(nPlan.EValue) = OptionsOf(args.options).numSamples
        /\ Len(nPlan.StopT) = OptionsOf(args.options).numSamples
        /\ \A j \in 1..Len(nPlan.StopT) :
              LET trace == nPlan.EValue[j]
              IN IF nPlan.StopT[j] # notStopped
                 THEN /\ Len(trace) = nPlan.StopT[j]
                      /\ \A k \in 1..Len(trace) :
                            Exceeds(trace[k]) <=> k = Len(trace)
                 ELSE /\ Len(trace) = nPlan.Batch
                      /\ \A k \in 1..Len(trace) : ~Exceeds(trace[k])

\* A returned plan with one trial stopped after its first checkpoint and one
\* trial that ran through the batch.
C28_Witness ==
    /\ pc = "done"
    /\ \E j \in 1..Len(nPlan.StopT) :
          nPlan.StopT[j] # notStopped /\ Len(nPlan.EValue[j]) > 1
    /\ \E j \in 1..Len(nPlan.StopT) :
          nPlan.StopT[j] = notStopped /\ Len(nPlan.EValue[j]) > 1

\* C29: whenever getNPlanBatch has succeeded, every checkpoint count
\* n2[i] = ceil(ratio * i), i <= n1_batch, lies between 1 and the sample
\* length max(n1_batch, n2_batch), and interpolator.do does not index the
\* cumulative sums out of range.
C29_CountsWithinSample ==
    (CheckpointsBuilt /\ ~args.brent.err) =>
        /\ \A k \in 1..Len(n2Vector) :
              /\ 1 <= n2Vector[k]
              /\ n2Vector[k] <= MaxOf(nPlan.Batch, batch2)
        /\ pc # "panic"

\* The e-value of checkpoint k computed from the current samples alone.
OwnEValue(k) ==
    CheckpointEValue(n1Vector[k], n2Vector[k],
                     MeanOfFirst(sample1, n1Vector[k]),
                     MeanOfFirst(sample2, n2Vector[k]),
                     SquareSumOfFirst(sample1, n1Vector[k]),
                     SquareSumOfFirst(sample2, n2Vector[k]),
                     NewMom(args.deltaMin))

\* The buffers hold what freshly allocated buffers would hold after this
\* trial's interpolation, and the trace and the stopping time of the running
\* trial are those of the current samples.
OwnDrawsOnly ==
    Interpolated =>
        /\ interpolate1 =
              InterpolatorDo(NewInterpolator(Len(n1Vector), Len(sample1)),
                             n1Vector, sample1)
        /\ interpolate2 =
              InterpolatorDo(NewInterpolator(Len(n2Vector), Len(sample2)),
                             n2Vector, sample2)
        /\ \A k \in 1..Len(eValues) : eValues[k] = OwnEValue(k)
        /\ stopT # notStopped =>
              /\ Len(eValues) > 0
              /\ stopT = n1Vector[Len(eValues)]
              /\ Exceeds(OwnEValue(Len(eValues)))
        /\ (pc = "endTrial" /\ stopT = notStopped) =>
              /\ Len(eValues) = Len(n1Vector)
              /\ \A k \in 1..Len(n1Vector) : ~Exceeds(OwnEValue(k))

\* Within a call the traces and stopping times already stored stay as they
\* are.
StoredTracesKept ==
    calls' = calls =>
        /\ Len(nPlan.EValue') >= Len(nPlan.EValue)
        /\ \A j \in 1..Len(nPlan.EValue) :
              /\ nPlan.EValue'[j] = nPlan.EValue[j]
              /\ nPlan.StopT'[j] = nPlan.StopT[j]

\* C30: the sample and cumulative-sum buffers are reused by all trials, yet
\* the trace and the stopping time of each trial depend on that trial's own
\* draws only (what is read from the buffers was written in the same trial),
\* and the traces already stored in NPlan.EValue are not changed by later
\* trials.
C30_TrialsIndependent == []OwnDrawsOnly /\ [][StoredTracesKept]_vars

\* The second trial of a call has ended on reused buffers with a trace that
\* differs from the stored trace of the first.
C30_Witness ==
    /\ pc = "endTrial"
    /\ trial = 1
    /\ Len(nPlan.EValue) = 1
    /\ Len(eValues) > 1
    /\ eValues # nPlan.EValue[1]
    /\ interpolate1.cum[1] # 0

====
